---- MODULE Spec2Model ----
(***************************************************************************)
(* TOEIC bot: the answer handler (main.py, TOEICBot.handle_answer), the    *)
(* response store and the daily-progress recompute                         *)
(* (database/operations.py, DatabaseOperations), over the four tables of   *)
(* database/models.py, and the daily delivery of the scheduler thread      *)
(* (scheduler.py, DailyScheduler).                                         *)
(*                                                                         *)
(* The clock counts UTC days: a datetime is kept as the day it falls in,   *)
(* which is all that a comparison with a midnight (answered_at >= today,   *)
(* date == today) depends on.  A float percentage (c / n) * 100 is kept as *)
(* the reduced fraction 100c/n: the                                        *)
(* IEEE double the code computes is a function of that rational, distinct  *)
(* for distinct rationals of small denominator, and int() of every score   *)
(* formula below equals the floor of its exact value for all c <= n <= 40  *)
(* and for all multiples of 1/4 and 1/10 in [0, 100].  A nullable column   *)
(* holds {} (NULL) or {v}.                                                 *)
(***************************************************************************)
EXTENDS Integers, Sequences, FiniteSets, TLC

VARIABLES
    now,        \* the UTC day of datetime.utcnow()
    questions,  \* table questions, row id = index
    users,      \* table users, row id = index
    responses,  \* table responses, row id = index
    progress,   \* table progress, row id = index
    pc,         \* per handler invocation: where handle_answer stands
    req,        \* per handler invocation: user_id, question_id, user_answer
    upd,        \* per handler invocation: locals of _update_daily_progress
    last,       \* history: the last completed recompute, {} after a Response write
    accuracy,   \* argument of a direct call of _estimate_toeic_score
    score,      \* its return value, {} before the call
    weekend_delivery,   \* config.weekend_delivery
    job_due,    \* the daily job of the scheduler thread is pending
    cycle,      \* where deliver_to_all_users stands, and its locals
    outbox,     \* the calls of bot.send_message / bot.send_audio, in order
    log,        \* the logger.error records of the scheduler, in order
    attempts,   \* history: the generation attempts of the cycle, in order
    call,       \* the arguments of a direct call of a statistics method
    result      \* its return value, {} before the call

vars == <<now, questions, users, responses, progress, pc, req, upd, last,
          accuracy, score, weekend_delivery, job_due, cycle, outbox, log,
          attempts, call, result>>

\* the variables of the scheduler thread
cycleVars == <<weekend_delivery, job_due, cycle, outbox, log, attempts>>

\* the variables of the direct calls of get_weak_areas and _calculate_streak
callVars == <<call, result>>

\* the variables of the answer handler, the clock and the direct calls
handlerVars == <<now, responses, progress, pc, req, upd, last, accuracy, score>>

----------------------------------------------------------------------------
(* Bounds *)

MaxResponses == 3
MaxDay == 1
\* config.listening_questions_per_day (LISTENING_QUESTIONS_PER_DAY)
listening_questions_per_day == 3

(* Inputs *)

TelegramIds == {101, 102}
Handlers == {1, 2}
\* the generated payloads, in the order they are saved.  correct_answer is
\* the letter of the generator's JSON, which no code checks or normalises.
QuestionPayloads ==
    << [question_type |-> "grammar",   correct_answer |-> "A"],
       [question_type |-> "listening", correct_answer |-> "b"] >>
\* the answer events: Telegram user, question id, answer letter.  The letter
\* is the third field of the callback data, any string a client sends.
AnswerEvents ==
    { <<101, 1, "A">>, <<101, 1, "b">>, <<101, 2, "A">>, <<101, 2, "b">>,
      <<102, 1, "a">>, <<102, 2, "E">> }
AccuracyInputs == {[num |-> k, den |-> 4] : k \in 0..400}
\* config.grammar_questions_per_day (GRAMMAR_QUESTIONS_PER_DAY)
grammar_questions_per_day == 1
\* datetime.now().weekday(): Monday is 0, Sunday is 6
Weekdays == 0..6
\* the users table when the daily job becomes due
Rosters ==
    { << [telegram_id |-> 101, current_estimated_score |-> 600, is_active |-> TRUE],
         [telegram_id |-> 102, current_estimated_score |-> 600, is_active |-> TRUE] >>,
      << [telegram_id |-> 101, current_estimated_score |-> 600, is_active |-> FALSE],
         [telegram_id |-> 102, current_estimated_score |-> 600, is_active |-> TRUE] >>,
      << [telegram_id |-> 101, current_estimated_score |-> 600, is_active |-> TRUE],
         [telegram_id |-> 102, current_estimated_score |-> 600, is_active |-> FALSE] >> }

----------------------------------------------------------------------------
(* Values *)

None == {}
Some(v) == {v}
TheValue(o) == CHOOSE v \in o : TRUE

RECURSIVE GCD(_, _)
GCD(a, b) == IF b = 0 THEN a ELSE GCD(b, a % b)

\* (c / n) * 100 as a float, n > 0
Pct(c, n) ==
    LET g == GCD(100 * c, n)
    IN  [num |-> (100 * c) \div g, den |-> n \div g]

ZeroPct == [num |-> 0, den |-> 1]

Upper(s) ==
    CASE s = "a" -> "A"
      [] s = "b" -> "B"
      [] s = "c" -> "C"
      [] s = "d" -> "D"
      [] OTHER   -> s

----------------------------------------------------------------------------
(* DatabaseOperations._estimate_toeic_score.  The accuracy is the rational *)
(* a.num / a.den; branch k is one line of the if/elif chain.               *)

\* the condition under which the chain reaches and takes branch k
BranchOf(a) ==
    IF a.num >= 90 * a.den THEN "90"
    ELSE IF a.num >= 80 * a.den THEN "80"
    ELSE IF a.num >= 70 * a.den THEN "70"
    ELSE IF a.num >= 60 * a.den THEN "60"
    ELSE "low"

\* faulty variant: the 70-80 line starts at 610
BranchBaseOff(k) ==
    CASE k = "90" -> 800
      [] k = "80" -> 700
      [] k = "70" -> 610
      [] k = "60" -> 500
      [] OTHER    -> 400

BranchBase(k) ==
    CASE k = "90" -> 800
      [] k = "80" -> 700
      [] k = "70" -> 600
      [] k = "60" -> 500
      [] OTHER    -> 400

BranchFloor(k) ==
    CASE k = "90" -> 90
      [] k = "80" -> 80
      [] k = "70" -> 70
      [] k = "60" -> 60
      [] OTHER    -> 0

\* faulty variant: round() in place of int()
BranchScoreRounded(k, a) ==
    IF k = "low"
    THEN (2 * (40000 * a.den + 167 * a.num) + 100 * a.den) \div (200 * a.den)
    ELSE (2 * (BranchBase(k) * a.den + 10 * (a.num - BranchFloor(k) * a.den)) + a.den)
            \div (2 * a.den)

\* faulty variant: 1.7 in place of 1.67
BranchScoreSteep(k, a) ==
    IF k = "low"
    THEN (4000 * a.den + 17 * a.num) \div (10 * a.den)
    ELSE (BranchBase(k) * a.den + 10 * (a.num - BranchFloor(k) * a.den)) \div a.den

\* faulty variant: 1.76 in place of 1.67
BranchScoreShifted(k, a) ==
    IF k = "low"
    THEN (40000 * a.den + 176 * a.num) \div (100 * a.den)
    ELSE (BranchBase(k) * a.den + 10 * (a.num - BranchFloor(k) * a.den)) \div a.den

\* int(base + (accuracy - floor) * 10), and int(400 + accuracy * 1.67)
BranchScore(k, a) ==
    IF k = "low"
    THEN (40000 * a.den + 167 * a.num) \div (100 * a.den)
    ELSE (BranchBase(k) * a.den + 10 * (a.num - BranchFloor(k) * a.den)) \div a.den

estimate_toeic_score(a) == BranchScore(BranchOf(a), a)

----------------------------------------------------------------------------
(* The tables *)

QuestionOf(r) == questions[r.question_id]

\* session.query(Question).filter_by(id=question_id).first()
get_question_by_id(question_id) ==
    IF question_id \in 1..Len(questions) THEN Some(question_id) ELSE None

\* session.query(User).filter_by(telegram_id=telegram_id).first()
UserByTelegramId(tg) ==
    LET found == {i \in 1..Len(users) : users[i].telegram_id = tg}
    IN  IF found = {} THEN None
        ELSE Some(CHOOSE i \in found : \A j \in found : i <= j)

\* session.query(Progress).filter(user_id == .., date == today)
ProgressRows(user_id, date) ==
    {i \in 1..Len(progress) :
        progress[i].user_id = user_id /\ progress[i].date = date}

\* faulty variant: the filter on Progress.date left out
FirstProgressAnyDay(user_id, date) ==
    LET found == {i \in 1..Len(progress) : progress[i].user_id = user_id}
    IN  IF found = {} THEN None
        ELSE Some(CHOOSE i \in found : \A j \in found : i <= j)

\* .first() of that query
FirstProgress(user_id, date) ==
    LET found == ProgressRows(user_id, date)
    IN  IF found = {} THEN None
        ELSE Some(CHOOSE i \in found : \A j \in found : i <= j)

\* faulty variant: the filter on User.id left out
TodayResponsesAnyUser(user_id, today) ==
    {i \in 1..Len(responses) : responses[i].answered_at >= today}

\* session.query(Response).join(User).filter(User.id == user_id,
\*                                           Response.answered_at >= today).all()
TodayResponses(user_id, today) ==
    {i \in 1..Len(responses) :
        responses[i].user_id = user_id /\ responses[i].answered_at >= today}

Correct(rs) == {i \in rs : responses[i].is_correct}

OfType(rs, q_type) == {i \in rs : QuestionOf(responses[i]).question_type = q_type}

\* Progress(user_id=user_id, date=today), with the column defaults of the INSERT
NewProgress(user_id, today) ==
    [user_id               |-> user_id,
     date                  |-> today,
     questions_attempted   |-> 0,
     questions_correct     |-> 0,
     accuracy_percentage   |-> ZeroPct,
     listening_accuracy    |-> None,
     grammar_accuracy      |-> None,
     vocabulary_accuracy   |-> None,
     reading_accuracy      |-> None,
     estimated_toeic_score |-> None]

TypeAccuracy(old, rs, q_type) ==
    LET type_responses == OfType(rs, q_type)
    IN  IF type_responses # {}
        THEN Some(Pct(Cardinality(Correct(type_responses)),
                      Cardinality(type_responses)))
        ELSE old

\* faulty variant: the counters are incremented, not recomputed
RecomputedRowIncremental(row, rs) ==
    IF rs = {} THEN row
    ELSE LET attempted == row.questions_attempted + Cardinality(rs)
             correct   == row.questions_correct + Cardinality(Correct(rs))
             acc       == Pct(correct, attempted)
         IN  [row EXCEPT
                !.questions_attempted   = attempted,
                !.questions_correct     = correct,
                !.accuracy_percentage   = acc,
                !.listening_accuracy    = TypeAccuracy(@, rs, "listening"),
                !.grammar_accuracy      = TypeAccuracy(@, rs, "grammar"),
                !.vocabulary_accuracy   = TypeAccuracy(@, rs, "vocabulary"),
                !.reading_accuracy      = TypeAccuracy(@, rs, "reading"),
                !.estimated_toeic_score = Some(estimate_toeic_score(acc))]

\* lines 109-123 of _update_daily_progress: the fields of the row after the
\* recompute from today_responses (rs); untouched when rs is empty
RecomputedRow(row, rs) ==
    IF rs = {} THEN row
    ELSE LET attempted == Cardinality(rs)
             correct   == Cardinality(Correct(rs))
             acc       == Pct(correct, attempted)
         IN  [row EXCEPT
                !.questions_attempted   = attempted,
                !.questions_correct     = correct,
                !.accuracy_percentage   = acc,
                !.listening_accuracy    = TypeAccuracy(@, rs, "listening"),
                !.grammar_accuracy      = TypeAccuracy(@, rs, "grammar"),
                !.vocabulary_accuracy   = TypeAccuracy(@, rs, "vocabulary"),
                !.reading_accuracy      = TypeAccuracy(@, rs, "reading"),
                !.estimated_toeic_score = Some(estimate_toeic_score(acc))]

\* faulty variant: the user keeps the higher of the two scores
ScoreAfterHighest(old, row, rs) ==
    IF rs # {} /\ TheValue(row.estimated_toeic_score) > old
    THEN TheValue(row.estimated_toeic_score)
    ELSE old

\* faulty variant: the score is assigned outside the `if today_responses:` block
ScoreAfterUnguarded(old, row, rs) == estimate_toeic_score(row.accuracy_percentage)

\* lines 125-127: user.current_estimated_score after the recompute, inside
\* the `if today_responses:` block
ScoreAfter(old, row, rs) ==
    IF rs # {} THEN TheValue(row.estimated_toeic_score) ELSE old

----------------------------------------------------------------------------
(* Initial state: the empty database of init_db, no update in flight *)

NoReq == [user_id |-> 0, question_id |-> 0, user_answer |-> ""]
NoUpd == [today |-> 0, row |-> None, today_responses |-> {}]

\* the scheduler thread outside deliver_to_all_users
NoCycle ==
    [pc |-> "idle", users |-> <<>>, n |-> 0, i |-> 0,
     listening_questions |-> <<>>, grammar_questions |-> <<>>]

\* no request in flight, nothing sent or logged
\* no statistics method has been called
NoCall == [fn |-> "none"]

Quiet ==
    /\ pc = [h \in Handlers |-> "idle"]
    /\ req = [h \in Handlers |-> NoReq]
    /\ upd = [h \in Handlers |-> NoUpd]
    /\ last = None
    /\ cycle = NoCycle
    /\ outbox = <<>>
    /\ log = <<>>
    /\ attempts = <<>>
    /\ call = NoCall
    /\ result = None

\* the daily job is not due while the answers are handled
DbInit ==
    /\ now = 0
    /\ questions = <<>>
    /\ users = <<>>
    /\ responses = <<>>
    /\ progress = <<>>
    /\ Quiet
    /\ weekend_delivery = FALSE
    /\ job_due = FALSE

Init ==
    /\ DbInit
    /\ accuracy = ZeroPct
    /\ score = None

----------------------------------------------------------------------------
(* Actions *)

\* midnight UTC passes
Tick ==
    /\ now < MaxDay
    /\ now' = now + 1
    /\ UNCHANGED <<questions, users, responses, progress, pc, req, upd, last,
                   accuracy, score>>
    /\ UNCHANGED cycleVars
    /\ UNCHANGED callVars

\* faulty variant: a saved Question starts with used_count 1
save_question_counted ==
    /\ Len(questions) < Len(QuestionPayloads)
    /\ questions' = Append(questions,
            [question_type  |-> QuestionPayloads[Len(questions) + 1].question_type,
             correct_answer |-> QuestionPayloads[Len(questions) + 1].correct_answer,
             used_count     |-> 1])
    /\ UNCHANGED <<now, users, responses, progress, pc, req, upd, last,
                   accuracy, score>>
    /\ UNCHANGED cycleVars
    /\ UNCHANGED callVars

\* DatabaseOperations.save_question, called by practice_command (event loop)
\* and by the scheduler thread
save_question ==
    /\ Len(questions) < Len(QuestionPayloads)
    /\ questions' = Append(questions,
            [question_type  |-> QuestionPayloads[Len(questions) + 1].question_type,
             correct_answer |-> QuestionPayloads[Len(questions) + 1].correct_answer,
             used_count     |-> 0])
    /\ UNCHANGED <<now, users, responses, progress, pc, req, upd, last,
                   accuracy, score>>
    /\ UNCHANGED cycleVars
    /\ UNCHANGED callVars

\* faulty variant: updates are handled concurrently, each in its own session
CanDispatchConcurrent == TRUE

\* The Application is built without concurrent_updates: the next update is
\* dispatched when the handler of the previous one has returned.
CanDispatch == \A h \in Handlers : pc[h] = "idle"

FreeHandler(h) ==
    /\ pc[h] = "idle"
    /\ \A g \in Handlers : pc[g] = "idle" => h <= g

\* faulty variant: the call also resets the score of a user it finds
get_or_create_user_resetting(tg) ==
    IF UserByTelegramId(tg) = None
    THEN Append(users, [telegram_id |-> tg, current_estimated_score |-> 600,
                        is_active |-> TRUE])
    ELSE [users EXCEPT ![TheValue(UserByTelegramId(tg))].current_estimated_score = 600]

\* faulty variant: the call also reactivates a user it finds
get_or_create_user_activating(tg) ==
    IF UserByTelegramId(tg) = None
    THEN Append(users, [telegram_id |-> tg, current_estimated_score |-> 600,
                        is_active |-> TRUE])
    ELSE [users EXCEPT ![TheValue(UserByTelegramId(tg))].is_active = TRUE]

\* get_or_create_user: the users table after the call (of the columns, the
\* model keeps telegram_id, current_estimated_score and is_active)
get_or_create_user(tg) ==
    IF UserByTelegramId(tg) = None
    THEN Append(users, [telegram_id |-> tg, current_estimated_score |-> 600,
                        is_active |-> TRUE])
    ELSE users

\* a new Telegram user is the lowest id not yet registered
NextNewUser(tg) ==
    \A t \in TelegramIds : UserByTelegramId(t) = None => tg <= t

\* handle_answer, lines 313-330, and save_response, lines 66-81: parse the
\* callback data, get_or_create_user, look the question up, write the Response
handle_answer(h, tg, question_id, user_answer) ==
    /\ CanDispatch
    /\ FreeHandler(h)
    /\ UserByTelegramId(tg) # None \/ NextNewUser(tg)
    /\ users' = get_or_create_user(tg)
    /\ \/ \* question is None: question.correct_answer raises, nothing more is
          \* written and the handler ends
          /\ get_question_by_id(question_id) = None
          /\ UNCHANGED <<questions, responses, pc, req, last>>
       \/ /\ get_question_by_id(question_id) # None
          /\ Len(responses) < MaxResponses
          /\ responses' = Append(responses,
                [user_id     |-> IF UserByTelegramId(tg) = None
                                 THEN Len(users) + 1
                                 ELSE TheValue(UserByTelegramId(tg)),
                 question_id |-> question_id,
                 user_answer |-> Upper(user_answer),
                 is_correct  |-> Upper(user_answer)
                                   = Upper(questions[question_id].correct_answer),
                 answered_at |-> now])   \* default=datetime.utcnow, at the flush
          /\ questions' = [questions EXCEPT ![question_id].used_count = @ + 1]
          /\ req' = [req EXCEPT ![h] =
                [user_id     |-> IF UserByTelegramId(tg) = None
                                 THEN Len(users) + 1
                                 ELSE TheValue(UserByTelegramId(tg)),
                 question_id |-> question_id,
                 user_answer |-> user_answer]]
          /\ last' = None
          /\ pc' = [pc EXCEPT ![h] = "saved"]
    /\ UNCHANGED <<now, progress, upd, accuracy, score>>
    /\ UNCHANGED cycleVars
    /\ UNCHANGED callVars

\* _update_daily_progress, lines 90-107: today, the get-or-create of the row
\* (a new row stays pending in the session), the day's responses
update_daily_progress_read(h) ==
    /\ pc[h] = "saved"
    /\ upd' = [upd EXCEPT ![h] =
            [today           |-> now,
             row             |-> FirstProgress(req[h].user_id, now),
             today_responses |-> TodayResponses(req[h].user_id, now)]]
    /\ pc' = [pc EXCEPT ![h] = "read"]
    /\ UNCHANGED <<now, questions, users, responses, progress, req, last,
                   accuracy, score>>
    /\ UNCHANGED cycleVars
    /\ UNCHANGED callVars

\* _update_daily_progress, lines 109-129: the recompute and the commit; then
\* save_response returns and handle_answer, lines 331-348, formats the result
\* and closes the session
update_daily_progress_write(h) ==
    /\ pc[h] = "read"
    /\ LET user_id == req[h].user_id
           rs      == upd[h].today_responses
           old     == IF upd[h].row = None
                      THEN NewProgress(user_id, upd[h].today)
                      ELSE progress[TheValue(upd[h].row)]
           new     == RecomputedRow(old, rs)
           key     == [user_id |-> user_id, today |-> upd[h].today]
       IN  /\ progress' = IF upd[h].row = None
                          THEN Append(progress, new)
                          ELSE [progress EXCEPT ![TheValue(upd[h].row)] = new]
           /\ users' = [users EXCEPT ![user_id].current_estimated_score =
                            ScoreAfter(@, new, rs)]
           /\ last' = IF last # None /\ TheValue(last).key = key
                      THEN Some([key |-> key, runs |-> 2])
                      ELSE Some([key |-> key, runs |-> 1])
    /\ pc' = [pc EXCEPT ![h] = "idle"]
    /\ req' = [req EXCEPT ![h] = NoReq]
    /\ upd' = [upd EXCEPT ![h] = NoUpd]
    /\ UNCHANGED <<now, questions, responses, accuracy, score>>
    /\ UNCHANGED cycleVars
    /\ UNCHANGED callVars

Next ==
    \/ Tick
    \/ save_question
    \/ \E h \in Handlers, e \in AnswerEvents : handle_answer(h, e[1], e[2], e[3])
    \/ \E h \in Handlers : update_daily_progress_read(h)
    \/ \E h \in Handlers : update_daily_progress_write(h)

Spec == Init /\ [][Next]_vars

\* the recompute that completed last, with no Response written since
LastKey == TheValue(last).key

\* _update_daily_progress(user_id) called once more, on the same UTC day, for
\* the learner of the recompute that completed last: lines 90-107 of the call
RecomputeAgain(h) ==
    /\ CanDispatch
    /\ FreeHandler(h)
    /\ last # None
    /\ now = LastKey.today
    /\ req' = [req EXCEPT ![h] = [NoReq EXCEPT !.user_id = LastKey.user_id]]
    /\ upd' = [upd EXCEPT ![h] =
            [today           |-> now,
             row             |-> FirstProgress(LastKey.user_id, now),
             today_responses |-> TodayResponses(LastKey.user_id, now)]]
    /\ pc' = [pc EXCEPT ![h] = "read"]
    /\ UNCHANGED <<now, questions, users, responses, progress, last,
                   accuracy, score>>
    /\ UNCHANGED cycleVars
    /\ UNCHANGED callVars

NextOps ==
    \/ Next
    \/ \E h \in Handlers : RecomputeAgain(h)

SpecOps == Init /\ [][NextOps]_vars

\* _update_daily_progress raises after the Response was committed (a query of
\* lines 93-107 or the commit of line 129 fails): the pending row and the
\* changes of the recompute are lost with the session, the exception leaves
\* save_response and handle_answer, and the handler of the update ends
update_daily_progress_fails(h) ==
    /\ pc[h] \in {"saved", "read"}
    /\ pc' = [pc EXCEPT ![h] = "idle"]
    /\ req' = [req EXCEPT ![h] = NoReq]
    /\ upd' = [upd EXCEPT ![h] = NoUpd]
    /\ UNCHANGED <<now, questions, users, responses, progress, last,
                   accuracy, score>>
    /\ UNCHANGED cycleVars
    /\ UNCHANGED callVars

\* a direct call of _estimate_toeic_score(accuracy)
InitScore ==
    /\ DbInit
    /\ accuracy \in AccuracyInputs
    /\ score = None

Estimate ==
    /\ score = None
    /\ score' = Some(estimate_toeic_score(accuracy))
    /\ UNCHANGED <<now, questions, users, responses, progress, pc, req, upd, last,
                   accuracy>>
    /\ UNCHANGED cycleVars
    /\ UNCHANGED callVars

NextScore == Estimate

SpecScore == InitScore /\ [][NextScore]_vars

----------------------------------------------------------------------------
(* The scheduler thread: DailyScheduler.deliver_to_all_users, run by the   *)
(* daily job of DailyScheduler.start.  A message is in the outbox when the *)
(* code has called bot.send_message or bot.send_audio for it; what the     *)
(* transport does with the call is outside the model.                      *)

\* faulty variant: the query has no filter
get_all_users == [k \in 1..Len(users) |-> k]

\* DatabaseOperations.get_all_active_users: the ids of the active users
get_all_active_users ==
    SelectSeq([k \in 1..Len(users) |-> k], LAMBDA k : users[k].is_active)

\* faulty variant: only Sunday counts as the weekend
IsWeekendSundayOnly(wd) == wd >= 6

\* datetime.now().weekday() >= 5
IsWeekend(wd) == wd >= 5

\* the user of the current iteration of `for user in users`
CurrentUser == users[cycle.users[cycle.n]]

\* faulty variant: the loop ends one user early
NextUserSkipsLast(c) ==
    IF c.n + 1 < Len(c.users)
    THEN [c EXCEPT !.n = @ + 1, !.pc = "listening", !.i = 1,
                   !.listening_questions = <<>>, !.grammar_questions = <<>>]
    ELSE [c EXCEPT !.pc = "idle", !.i = 0]

\* the next iteration of `for user in users`: generate_daily_content starts
\* with empty lists; after the last user the job returns
NextUser(c) ==
    IF c.n < Len(c.users)
    THEN [c EXCEPT !.n = @ + 1, !.pc = "listening", !.i = 1,
                   !.listening_questions = <<>>, !.grammar_questions = <<>>]
    ELSE [c EXCEPT !.pc = "idle", !.i = 0]

\* users = db_ops.get_all_active_users() and the first iteration
StartCycle == NextUser([NoCycle EXCEPT !.users = get_all_active_users])

\* the row save_question adds for a payload
NewQuestion(payload) ==
    [question_type  |-> payload.question_type,
     correct_answer |-> payload.correct_answer,
     used_count     |-> 0]

\* the next iteration of the listening loop, or the grammar loop after it
AfterListening(c) ==
    IF c.i < listening_questions_per_day
    THEN [c EXCEPT !.i = @ + 1]
    ELSE [c EXCEPT !.pc = "grammar", !.i = 1]

\* faulty variant: an exception in the listening loop ends the loop
AfterListeningErrorBreaks(c) == [c EXCEPT !.pc = "grammar", !.i = 1]

\* `except Exception` inside the body of the listening loop: the loop goes on
AfterListeningError(c) == AfterListening(c)

\* the next iteration of the grammar loop, or `return content` and the
\* start of send_daily_content
AfterGrammar(c) ==
    IF c.i < grammar_questions_per_day
    THEN [c EXCEPT !.i = @ + 1]
    ELSE [c EXCEPT !.pc = "intro", !.i = 0]

\* faulty variant: the separator is sent right after the introduction
AfterIntroSeparator(c) == [c EXCEPT !.pc = "separator", !.i = 0]

\* faulty variant: with no item at all the delivery ends after the
\* introduction
AfterIntroEndsWhenEmpty(c) ==
    IF c.listening_questions = <<>> /\ c.grammar_questions = <<>>
    THEN NextUser(c)
    ELSE IF c.listening_questions = <<>>
         THEN [c EXCEPT !.pc = "separator", !.i = 0]
         ELSE [c EXCEPT !.pc = "audio", !.i = 1]

\* after the introduction: the loop over content['listening_questions']
AfterIntro(c) ==
    IF c.listening_questions = <<>>
    THEN [c EXCEPT !.pc = "separator", !.i = 0]
    ELSE [c EXCEPT !.pc = "audio", !.i = 1]

AfterQuestion(c) ==
    IF c.i < Len(c.listening_questions)
    THEN [c EXCEPT !.pc = "audio", !.i = @ + 1]
    ELSE [c EXCEPT !.pc = "separator", !.i = 0]

\* after the separator: the loop over content['grammar_questions']
AfterSeparator(c) ==
    IF c.grammar_questions = <<>>
    THEN [c EXCEPT !.pc = "closing", !.i = 0]
    ELSE [c EXCEPT !.pc = "grammar_msg", !.i = 1]

AfterGrammarMsg(c) ==
    IF c.i < Len(c.grammar_questions)
    THEN [c EXCEPT !.i = @ + 1]
    ELSE [c EXCEPT !.pc = "closing", !.i = 0]

\* faulty variant: the exception handler of send_daily_content goes on to the
\* closing message
OnSendErrorSendsClosing(c) == [c EXCEPT !.pc = "closing", !.i = 0]

\* faulty variant: an exception in send_daily_content ends the job
OnSendErrorEndsCycle(c) == [c EXCEPT !.pc = "idle", !.i = 0]

\* `except Exception` of send_daily_content: the call returns and the loop
\* of deliver_to_all_users goes on
OnSendError(c) == NextUser(c)

\* a call of the transport for the current user
Message(kind, question_id) ==
    [chat_id |-> CurrentUser.telegram_id, kind |-> kind,
     question_id |-> question_id]

\* a generation attempt of the current user: question_id is 0 when it failed
Attempt(kind, question_id) ==
    [user |-> CurrentUser.telegram_id, kind |-> kind, i |-> cycle.i,
     question_id |-> question_id]

SendingPcs == {"intro", "audio", "question", "separator", "grammar_msg", "closing"}

\* faulty variant: each due job is run on a thread of its own
SchedulerThreadFreeAlways == TRUE

\* the one scheduler thread is in the loop of DailyScheduler.start, between
\* two calls of schedule.run_pending(): run_pending runs the job on the
\* calling thread and returns after deliver_to_all_users has returned
SchedulerThreadFree == cycle.pc = "idle"

\* schedule.run_pending() runs the due job: deliver_to_all_users, with the
\* local weekday wd it reads
deliver_to_all_users(wd) ==
    /\ job_due
    /\ SchedulerThreadFree
    /\ job_due' = FALSE
    /\ cycle' = IF ~weekend_delivery /\ IsWeekend(wd) THEN cycle ELSE StartCycle
    /\ UNCHANGED <<weekend_delivery, outbox, log, attempts, questions, users>>
    /\ UNCHANGED handlerVars
    /\ UNCHANGED callVars

\* the keys the listening loop reads with q_data[...]; 'explanation' is read
\* with q_data.get and may be absent
ListeningKeys ==
    {"audio_script", "question", "option_a", "option_b", "option_c",
     "option_d", "correct_answer"}

\* the keys the grammar loop reads with q_data[...]
GrammarKeys ==
    {"question_type", "question_text", "option_a", "option_b", "option_c",
     "option_d", "correct_answer"}

\* generate_question (or generate_audio after it) raises
Raises == [raised |-> TRUE, keys |-> {}]

\* generate_question returns a dict with these keys
Returns(keys) == [raised |-> FALSE, keys |-> keys]

\* what the generator gives for an item: an exception, a complete payload
\* with or without 'explanation', or a payload that lacks one key
Results(keys) ==
    {Raises, Returns(keys \cup {"explanation"}), Returns(keys)}
        \cup {Returns((keys \cup {"explanation"}) \ {k}) : k \in keys}

ListeningResults == Results(ListeningKeys)

GrammarResults == Results(GrammarKeys)

\* faulty variant: a key that is absent is read as an empty value
HasKeysDefaulted(q_data, keys) == TRUE

\* every q_data[k] of the loop body finds its key (no KeyError)
HasKeys(q_data, keys) == keys \subseteq q_data.keys

\* the body of the try of one item runs to its end: the generator returned,
\* every key was found and save_question committed
ItemSucceeds(q_data, keys, saved) ==
    ~q_data.raised /\ HasKeys(q_data, keys) /\ saved

\* faulty variant: the commit of save_question also writes back the rows
\* the scheduler's session loaded earlier, with the used_count it read then
generate_listening_question_writing_back(q_data, saved) ==
    /\ cycle.pc = "listening"
    /\ IF ItemSucceeds(q_data, ListeningKeys, saved)
       THEN /\ questions' =
                   Append([q \in 1..Len(questions) |->
                              [questions[q] EXCEPT !.used_count = 0]],
                          NewQuestion(QuestionPayloads[2]))
            /\ attempts' = Append(attempts, Attempt("listening", Len(questions) + 1))
            /\ cycle' = AfterListening([cycle EXCEPT !.listening_questions =
                                            Append(@, Len(questions) + 1)])
            /\ log' = log
       ELSE /\ log' = Append(log, [where |-> "listening", chat_id |-> 0])
            /\ attempts' = Append(attempts, Attempt("listening", 0))
            /\ cycle' = AfterListeningError(cycle)
            /\ questions' = questions
    /\ UNCHANGED <<weekend_delivery, job_due, outbox, users>>
    /\ UNCHANGED handlerVars
    /\ UNCHANGED callVars

\* one iteration of the listening loop of generate_daily_content: the
\* question and its audio are generated and the Question is saved, or one of
\* the calls raises (the generator, the lookup of a key, save_question when
\* saved is FALSE) and the error is logged
generate_listening_question(q_data, saved) ==
    /\ cycle.pc = "listening"
    /\ IF ItemSucceeds(q_data, ListeningKeys, saved)
       THEN /\ questions' = Append(questions, NewQuestion(QuestionPayloads[2]))
            /\ attempts' = Append(attempts, Attempt("listening", Len(questions) + 1))
            /\ cycle' = AfterListening([cycle EXCEPT !.listening_questions =
                                            Append(@, Len(questions) + 1)])
            /\ log' = log
       ELSE /\ log' = Append(log, [where |-> "listening", chat_id |-> 0])
            /\ attempts' = Append(attempts, Attempt("listening", 0))
            /\ cycle' = AfterListeningError(cycle)
            /\ questions' = questions
    /\ UNCHANGED <<weekend_delivery, job_due, outbox, users>>
    /\ UNCHANGED handlerVars
    /\ UNCHANGED callVars

\* faulty variant: the item is added to the content without save_question:
\* the keyboard carries the id of a row that is not in the table
generate_grammar_question_unsaved(q_data, saved) ==
    /\ cycle.pc = "grammar"
    /\ IF ItemSucceeds(q_data, GrammarKeys, saved)
       THEN /\ questions' = questions
            /\ attempts' = Append(attempts, Attempt("grammar", Len(questions) + 1))
            /\ cycle' = AfterGrammar([cycle EXCEPT !.grammar_questions =
                                            Append(@, Len(questions) + 1)])
            /\ log' = log
       ELSE /\ log' = Append(log, [where |-> "grammar", chat_id |-> 0])
            /\ attempts' = Append(attempts, Attempt("grammar", 0))
            /\ cycle' = AfterGrammar(cycle)
            /\ questions' = questions
    /\ UNCHANGED <<weekend_delivery, job_due, outbox, users>>
    /\ UNCHANGED handlerVars
    /\ UNCHANGED callVars

\* one iteration of the grammar loop of generate_daily_content
generate_grammar_question(q_data, saved) ==
    /\ cycle.pc = "grammar"
    /\ IF ItemSucceeds(q_data, GrammarKeys, saved)
       THEN /\ questions' = Append(questions, NewQuestion(QuestionPayloads[1]))
            /\ attempts' = Append(attempts, Attempt("grammar", Len(questions) + 1))
            /\ cycle' = AfterGrammar([cycle EXCEPT !.grammar_questions =
                                            Append(@, Len(questions) + 1)])
            /\ log' = log
       ELSE /\ log' = Append(log, [where |-> "grammar", chat_id |-> 0])
            /\ attempts' = Append(attempts, Attempt("grammar", 0))
            /\ cycle' = AfterGrammar(cycle)
            /\ questions' = questions
    /\ UNCHANGED <<weekend_delivery, job_due, outbox, users>>
    /\ UNCHANGED handlerVars
    /\ UNCHANGED callVars

\* what a step of send_daily_content leaves alone
sendFrame == <<weekend_delivery, job_due, log, attempts, questions, users>>

\* get_user_stats and the introduction
send_intro ==
    /\ cycle.pc = "intro"
    /\ outbox' = Append(outbox, Message("intro", 0))
    /\ cycle' = AfterIntro(cycle)
    /\ UNCHANGED sendFrame
    /\ UNCHANGED handlerVars
    /\ UNCHANGED callVars

\* open(question.audio_file_path) and bot.send_audio
send_audio ==
    /\ cycle.pc = "audio"
    /\ outbox' = Append(outbox, Message("audio", cycle.listening_questions[cycle.i]))
    /\ cycle' = [cycle EXCEPT !.pc = "question"]
    /\ UNCHANGED sendFrame
    /\ UNCHANGED handlerVars
    /\ UNCHANGED callVars

\* the listening question with its answer keyboard
send_question ==
    /\ cycle.pc = "question"
    /\ outbox' = Append(outbox, Message("question", cycle.listening_questions[cycle.i]))
    /\ cycle' = AfterQuestion(cycle)
    /\ UNCHANGED sendFrame
    /\ UNCHANGED handlerVars
    /\ UNCHANGED callVars

send_separator ==
    /\ cycle.pc = "separator"
    /\ outbox' = Append(outbox, Message("separator", 0))
    /\ cycle' = AfterSeparator(cycle)
    /\ UNCHANGED sendFrame
    /\ UNCHANGED handlerVars
    /\ UNCHANGED callVars

\* a grammar question with its answer keyboard
send_grammar_question ==
    /\ cycle.pc = "grammar_msg"
    /\ outbox' = Append(outbox, Message("grammar", cycle.grammar_questions[cycle.i]))
    /\ cycle' = AfterGrammarMsg(cycle)
    /\ UNCHANGED sendFrame
    /\ UNCHANGED handlerVars
    /\ UNCHANGED callVars

\* the closing message, session.close(); then time.sleep(1) and the next user
send_closing ==
    /\ cycle.pc = "closing"
    /\ outbox' = Append(outbox, Message("closing", 0))
    /\ cycle' = NextUser(cycle)
    /\ UNCHANGED sendFrame
    /\ UNCHANGED handlerVars
    /\ UNCHANGED callVars

\* faulty variant: the exception rolls back the Questions of the user
send_fails_rolling_back ==
    /\ cycle.pc \in SendingPcs
    /\ log' = Append(log, [where |-> "send", chat_id |-> CurrentUser.telegram_id])
    /\ cycle' = OnSendError(cycle)
    /\ questions' = SubSeq(questions, 1,
                           Len(questions) - Len(cycle.listening_questions)
                                          - Len(cycle.grammar_questions))
    /\ UNCHANGED <<weekend_delivery, job_due, outbox, attempts, users>>
    /\ UNCHANGED handlerVars
    /\ UNCHANGED callVars

\* a step of send_daily_content raises (get_user_stats, open, a call of the
\* transport): the error is logged with the user's telegram_id
send_fails ==
    /\ cycle.pc \in SendingPcs
    /\ log' = Append(log, [where |-> "send", chat_id |-> CurrentUser.telegram_id])
    /\ cycle' = OnSendError(cycle)
    /\ UNCHANGED <<weekend_delivery, job_due, outbox, attempts, questions, users>>
    /\ UNCHANGED handlerVars
    /\ UNCHANGED callVars

\* one day of the scheduler thread: the job is due once
InitCycle ==
    /\ now = 0
    /\ questions = <<>>
    /\ users \in Rosters
    /\ responses = <<>>
    /\ progress = <<>>
    /\ Quiet
    /\ weekend_delivery \in BOOLEAN
    /\ job_due = TRUE
    /\ accuracy = ZeroPct
    /\ score = None

NextCycle ==
    \/ \E wd \in Weekdays : deliver_to_all_users(wd)
    \/ \E q_data \in ListeningResults, saved \in BOOLEAN :
            generate_listening_question(q_data, saved)
    \/ \E q_data \in GrammarResults, saved \in BOOLEAN :
            generate_grammar_question(q_data, saved)
    \/ send_intro
    \/ send_audio
    \/ send_question
    \/ send_separator
    \/ send_grammar_question
    \/ send_closing
    \/ send_fails

SpecCycle == InitCycle /\ [][NextCycle]_vars

\* every external call of the cycle returns or raises: the scheduler thread,
\* which runs nothing else, always takes its next step
SpecCycleFair == SpecCycle /\ WF_vars(NextCycle)

----------------------------------------------------------------------------
(* The bot over several days: the daily job comes due again, whether or   *)
(* not a cycle is running, and learners subscribe and unsubscribe while   *)
(* the scheduler thread works.  The external calls of these days succeed. *)

\* the time of schedule.every().day.at(config.daily_delivery_time) comes:
\* the next day's job is due
JobBecomesDue ==
    /\ now < MaxDay
    /\ now' = now + 1
    /\ job_due' = TRUE
    /\ UNCHANGED <<questions, users, responses, progress, pc, req, upd, last,
                   accuracy, score>>
    /\ UNCHANGED <<weekend_delivery, cycle, outbox, log, attempts>>
    /\ UNCHANGED callVars

\* faulty variant: the preference is written whatever the user's state
update_user_preferences_unread(tg, is_active) ==
    [k \in 1..Len(users) |-> [users[k] EXCEPT !.is_active = is_active]]

\* DatabaseOperations.update_user_preferences(telegram_id, is_active=...):
\* the users table after the call
update_user_preferences(tg, is_active) ==
    IF UserByTelegramId(tg) = None
    THEN users
    ELSE [users EXCEPT ![TheValue(UserByTelegramId(tg))].is_active = is_active]

\* /subscribe of a registered user: is_active becomes TRUE
subscribe_command(tg) ==
    /\ CanDispatch
    /\ UserByTelegramId(tg) # None
    /\ users' = update_user_preferences(tg, TRUE)
    /\ UNCHANGED <<now, questions, responses, progress, pc, req, upd, last,
                   accuracy, score>>
    /\ UNCHANGED cycleVars
    /\ UNCHANGED callVars

\* /unsubscribe of a registered user: is_active becomes FALSE
unsubscribe_command(tg) ==
    /\ CanDispatch
    /\ UserByTelegramId(tg) # None
    /\ users' = update_user_preferences(tg, FALSE)
    /\ UNCHANGED <<now, questions, responses, progress, pc, req, upd, last,
                   accuracy, score>>
    /\ UNCHANGED cycleVars
    /\ UNCHANGED callVars

NextDaily ==
    \/ JobBecomesDue
    \/ \E wd \in Weekdays : deliver_to_all_users(wd)
    \/ generate_listening_question(Returns(ListeningKeys), TRUE)
    \/ generate_grammar_question(Returns(GrammarKeys), TRUE)
    \/ send_intro
    \/ send_audio
    \/ send_question
    \/ send_separator
    \/ send_grammar_question
    \/ send_closing
    \/ \E tg \in TelegramIds : subscribe_command(tg)
    \/ \E tg \in TelegramIds : unsubscribe_command(tg)

SpecDaily == InitCycle /\ [][NextDaily]_vars

----------------------------------------------------------------------------
(* The answer handler of the event loop and a delivery cycle of the       *)
(* scheduler thread, each with a session of its own on the same database, *)
(* in any interleaving of their steps.  The external calls succeed.       *)

\* the answer events of one learner of the roster
RosterAnswerEvents == {e \in AnswerEvents : e[1] = 101}

NextBoth ==
    \/ \E h \in Handlers, e \in RosterAnswerEvents :
            handle_answer(h, e[1], e[2], e[3])
    \/ \E h \in Handlers : update_daily_progress_read(h)
    \/ \E h \in Handlers : update_daily_progress_write(h)
    \/ \E wd \in Weekdays : deliver_to_all_users(wd)
    \/ generate_listening_question(Returns(ListeningKeys), TRUE)
    \/ generate_grammar_question(Returns(GrammarKeys), TRUE)
    \/ send_intro
    \/ send_audio
    \/ send_question
    \/ send_separator
    \/ send_grammar_question
    \/ send_closing

SpecBoth == InitCycle /\ [][NextBoth]_vars

(***************************************************************************)
(* The answer handler with a recompute that may fail, over the days of the *)
(* clock, for the answers of one learner.                                  *)
(***************************************************************************)

NextRetry ==
    \/ Tick
    \/ save_question
    \/ \E h \in Handlers, e \in RosterAnswerEvents :
            handle_answer(h, e[1], e[2], e[3])
    \/ \E h \in Handlers : update_daily_progress_read(h)
    \/ \E h \in Handlers : update_daily_progress_write(h)
    \/ \E h \in Handlers : update_daily_progress_fails(h)

SpecRetry == Init /\ [][NextRetry]_vars

(***************************************************************************)
(* The command handlers of the event loop beside the answer handler, and   *)
(* the scheduler thread up to the roster read of the day's job: while the  *)
(* handlers run, the job is not yet taken, or was skipped, or its cycle is *)
(* in its first generation call.                                           *)
(***************************************************************************)

\* the answers of this section: each learner presses a button of the first
\* Question
PrefsAnswerEvents == {e \in AnswerEvents : e[2] = 1 /\ e[3] \in {"A", "a"}}

\* /start: get_or_create_user and the welcome message
start_command(tg) ==
    /\ CanDispatch
    /\ users' = get_or_create_user(tg)
    /\ UNCHANGED questions
    /\ UNCHANGED handlerVars
    /\ UNCHANGED cycleVars
    /\ UNCHANGED callVars

\* /stats: get_user_stats only reads
stats_command(tg) ==
    /\ CanDispatch
    /\ UNCHANGED <<users, questions>>
    /\ UNCHANGED handlerVars
    /\ UNCHANGED cycleVars
    /\ UNCHANGED callVars

\* /settings: get_or_create_user and the settings message
settings_command(tg) ==
    /\ CanDispatch
    /\ users' = get_or_create_user(tg)
    /\ UNCHANGED questions
    /\ UNCHANGED handlerVars
    /\ UNCHANGED cycleVars
    /\ UNCHANGED callVars

\* the Question practice_command saves for a payload of a generator
PracticeQuestion(question_type) ==
    [NewQuestion(QuestionPayloads[1]) EXCEPT !.question_type = question_type]

\* /practice: get_or_create_user, then a grammar and a reading question,
\* each generated, saved and sent with its keyboard inside a try block of
\* its own (grammar, reading: the block did not raise)
practice_command(tg, grammar, reading) ==
    /\ CanDispatch
    /\ users' = get_or_create_user(tg)
    /\ Len(questions) + (IF grammar THEN 1 ELSE 0) + (IF reading THEN 1 ELSE 0)
           <= Len(QuestionPayloads)
    /\ questions' =
           (IF grammar THEN Append(questions, PracticeQuestion("grammar"))
                       ELSE questions)
           \o (IF reading THEN <<PracticeQuestion("reading")>> ELSE <<>>)
    /\ UNCHANGED handlerVars
    /\ UNCHANGED cycleVars
    /\ UNCHANGED callVars

NextPrefs ==
    \/ \E tg \in TelegramIds : start_command(tg)
    \/ \E tg \in TelegramIds : stats_command(tg)
    \/ \E tg \in TelegramIds : settings_command(tg)
    \/ \E tg \in TelegramIds : subscribe_command(tg)
    \/ \E tg \in TelegramIds : unsubscribe_command(tg)
    \/ \E tg \in TelegramIds, grammar, reading \in BOOLEAN :
            practice_command(tg, grammar, reading)
    \/ \E h \in Handlers, e \in PrefsAnswerEvents :
            handle_answer(h, e[1], e[2], e[3])
    \/ \E h \in Handlers : update_daily_progress_read(h)
    \/ \E h \in Handlers : update_daily_progress_write(h)
    \/ \E wd \in Weekdays : deliver_to_all_users(wd)

SpecPrefs == InitCycle /\ [][NextPrefs]_vars

----------------------------------------------------------------------------
(* The statistics methods get_weak_areas and _calculate_streak, called    *)
(* directly on a progress table.  A per-day accuracy is the reduced       *)
(* fraction of the float the row holds; the mean of a list of floats is   *)
(* the mean of the fractions.                                             *)

\* days=7, the default of get_user_progress and get_weak_areas
LookbackDays == 7

\* range(365) of _calculate_streak
StreakLimit == 365

\* a fraction in lowest terms
Norm(n, d) == LET g == GCD(n, d) IN [num |-> n \div g, den |-> d \div g]

AddPct(a, b) == Norm(a.num * b.den + b.num * a.den, a.den * b.den)

\* a <= b
LePct(a, b) == a.num * b.den <= b.num * a.den

RECURSIVE SumPct(_)
\* sum(accuracies)
SumPct(seq) == IF seq = <<>> THEN ZeroPct ELSE AddPct(Head(seq), SumPct(Tail(seq)))

\* sum(accuracies) / len(accuracies)
MeanPct(seq) == LET t == SumPct(seq) IN Norm(t.num, t.den * Len(seq))

\* the row id with the latest date among ids (the lowest id among equals)
LatestOf(ids) ==
    CHOOSE i \in ids :
        \A j \in ids : \/ progress[j].date < progress[i].date
                       \/ (progress[j].date = progress[i].date /\ i <= j)

RECURSIVE ByDateDesc(_)
\* order_by(Progress.date.desc())
ByDateDesc(ids) ==
    IF ids = {} THEN <<>>
    ELSE <<progress[LatestOf(ids)]>> \o ByDateDesc(ids \ {LatestOf(ids)})

\* Progress.date >= datetime.utcnow() - timedelta(days=days): the dates are
\* midnights, so the day `days` before today is in the window only when
\* utcnow() is itself a midnight
InWindow(date, days, at_midnight) ==
    IF at_midnight THEN date >= now - days ELSE date > now - days

\* DatabaseOperations.get_user_progress
get_user_progress(telegram_id, days, at_midnight) ==
    IF UserByTelegramId(telegram_id) = None
    THEN <<>>
    ELSE ByDateDesc({i \in 1..Len(progress) :
                        /\ progress[i].user_id = TheValue(UserByTelegramId(telegram_id))
                        /\ InWindow(progress[i].date, days, at_midnight)})

\* getattr(p, f"{q_type}_accuracy")
AccuracyColumn(p, q_type) ==
    CASE q_type = "listening"  -> p.listening_accuracy
      [] q_type = "grammar"    -> p.grammar_accuracy
      [] q_type = "vocabulary" -> p.vocabulary_accuracy
      [] OTHER                 -> p.reading_accuracy

\* faulty variant: a NULL accuracy is read as 0
AccuraciesNullAsZero(progress_records, q_type) ==
    [k \in 1..Len(progress_records) |->
        IF AccuracyColumn(progress_records[k], q_type) = None
        THEN ZeroPct
        ELSE TheValue(AccuracyColumn(progress_records[k], q_type))]

\* the list comprehension of get_weak_areas: the accuracies that are not None
Accuracies(progress_records, q_type) ==
    LET kept == SelectSeq(progress_records,
                          LAMBDA p : AccuracyColumn(p, q_type) # None)
    IN  [k \in 1..Len(kept) |-> TheValue(AccuracyColumn(kept[k], q_type))]

\* the loop over the four kinds, in its order
QuestionTypes == <<"listening", "grammar", "vocabulary", "reading">>

RECURSIVE WeakAreasOf(_, _)
\* weak_areas after the kinds from the k-th on: the items of the dict in
\* insertion order
WeakAreasOf(progress_records, k) ==
    IF k > Len(QuestionTypes) THEN <<>>
    ELSE LET accuracies == Accuracies(progress_records, QuestionTypes[k])
             rest       == WeakAreasOf(progress_records, k + 1)
         IN  IF accuracies # <<>>
             THEN <<[kind |-> QuestionTypes[k], value |-> MeanPct(accuracies)]>> \o rest
             ELSE rest

\* item e put into the sorted list s behind every item that is not greater
InsertSorted(e, s) ==
    LET before == {k \in 0..Len(s) : \A j \in 1..k : LePct(s[j].value, e.value)}
        pos    == CHOOSE k \in before : \A j \in before : j <= k
    IN  SubSeq(s, 1, pos) \o <<e>> \o SubSeq(s, pos + 1, Len(s))

RECURSIVE Sorted(_)
\* sorted(items, key=lambda x: x[1]): ascending and stable
Sorted(items) ==
    IF items = <<>> THEN <<>>
    ELSE InsertSorted(items[Len(items)], Sorted(SubSeq(items, 1, Len(items) - 1)))

\* DatabaseOperations.get_weak_areas: the items of the returned dict
get_weak_areas(telegram_id, days, at_midnight) ==
    LET progress_records == get_user_progress(telegram_id, days, at_midnight)
    IN  IF progress_records = <<>>
        THEN <<>>
        ELSE Sorted(WeakAreasOf(progress_records, 1))

\* faulty variant: a row counts whatever its questions_attempted
ActiveOnAnyRow(user_id, check_date) ==
    \E i \in 1..Len(progress) :
        progress[i].user_id = user_id /\ progress[i].date = check_date

\* the query of the loop body finds a row: user_id, date == check_date and
\* questions_attempted > 0
ActiveOn(user_id, check_date) ==
    \E i \in 1..Len(progress) :
        /\ progress[i].user_id = user_id
        /\ progress[i].date = check_date
        /\ progress[i].questions_attempted > 0

\* the iterations of `for i in range(365)` that do not add to streak: the
\* ones whose query finds no row, and the end of the range
StreakStops(user_id) ==
    {i \in 0..StreakLimit : i = StreakLimit \/ ~ActiveOn(user_id, now - i)}

\* DatabaseOperations._calculate_streak: streak is incremented once per
\* iteration until the first one that breaks
calculate_streak(user_id) ==
    CHOOSE i \in StreakStops(user_id) : \A j \in StreakStops(user_id) : i <= j

\* the responses of one kind on one day: how many, and how many correct
NoAnswers == [correct |-> 0, total |-> 0]

DayAccuracy(a) == IF a.total = 0 THEN None ELSE Some(Pct(a.correct, a.total))

\* the row the recompute leaves for a day with these responses
DayRow(user_id, date, l, g, v) ==
    LET attempted == l.total + g.total + v.total
        correct   == l.correct + g.correct + v.correct
    IN  IF attempted = 0
        THEN NewProgress(user_id, date)
        ELSE [user_id               |-> user_id,
              date                  |-> date,
              questions_attempted   |-> attempted,
              questions_correct     |-> correct,
              accuracy_percentage   |-> Pct(correct, attempted),
              listening_accuracy    |-> DayAccuracy(l),
              grammar_accuracy      |-> DayAccuracy(g),
              vocabulary_accuracy   |-> DayAccuracy(v),
              reading_accuracy      |-> None,
              estimated_toeic_score |->
                  Some(estimate_toeic_score(Pct(correct, attempted)))]

\* the rows a learner can have for a day: none, or the row of a day's answers
DayRows(user_id, date) ==
    {<<>>} \cup
    { <<DayRow(user_id, date, l, g, v)>> :
        l \in {NoAnswers, [correct |-> 0, total |-> 1], [correct |-> 1, total |-> 1]},
        g \in {NoAnswers, [correct |-> 1, total |-> 2], [correct |-> 1, total |-> 1]},
        v \in {NoAnswers, [correct |-> 1, total |-> 2]} }

\* for the streak: no row, a row without answers, a row with one answer
StreakRows(user_id, date) ==
    { <<>>, <<NewProgress(user_id, date)>>,
      <<DayRow(user_id, date, [correct |-> 1, total |-> 1], NoAnswers, NoAnswers)>> }

\* a row of another learner, today: reading only
OtherRow ==
    [DayRow(2, now, NoAnswers, NoAnswers, NoAnswers) EXCEPT
        !.questions_attempted   = 1,
        !.reading_accuracy      = Some(ZeroPct),
        !.estimated_toeic_score = Some(estimate_toeic_score(ZeroPct))]

\* an unbroken run of n days with answers that ends today
RunOfDays(user_id, n) ==
    [k \in 1..n |->
        DayRow(user_id, now - n + k, [correct |-> 1, total |-> 1], NoAnswers, NoAnswers)]

\* the progress tables the statistics are called on
StatsTables ==
    { older \o boundary \o inside \o today \o <<OtherRow>> :
        older    \in {<<>>, <<DayRow(1, now - LookbackDays - 1,
                                     [correct |-> 0, total |-> 1], NoAnswers, NoAnswers)>>},
        boundary \in {<<>>,
                      <<DayRow(1, now - LookbackDays,
                               [correct |-> 0, total |-> 1], NoAnswers, NoAnswers)>>,
                      <<DayRow(1, now - LookbackDays, NoAnswers, NoAnswers,
                               [correct |-> 0, total |-> 1])>>},
        inside   \in DayRows(1, now - 1),
        today    \in DayRows(1, now) }
    \cup
    { d3 \o d2 \o d1 \o d0 \o <<OtherRow>> :
        d3 \in StreakRows(1, now - 3), d2 \in StreakRows(1, now - 2),
        d1 \in StreakRows(1, now - 1), d0 \in StreakRows(1, now) }
    \cup
    UNION { {RunOfDays(1, n), <<NewProgress(1, now - n)>> \o RunOfDays(1, n)} :
                n \in (StreakLimit - 1)..(StreakLimit + 1) }

InitStats ==
    /\ now = 0
    /\ questions = <<>>
    /\ users \in {r \in Rosters : \A k \in 1..Len(r) : r[k].is_active}
    /\ responses = <<>>
    /\ progress \in StatsTables
    /\ Quiet
    /\ weekend_delivery = FALSE
    /\ job_due = FALSE
    /\ accuracy = ZeroPct
    /\ score = None

\* what a direct call of a statistics method leaves alone
statsFrame ==
    <<now, questions, users, responses, progress, pc, req, upd, last,
      accuracy, score>>

\* a call of get_weak_areas(telegram_id) with days at its default
weak_areas_call(telegram_id, at_midnight) ==
    /\ call = NoCall
    /\ call' = [fn |-> "get_weak_areas", telegram_id |-> telegram_id,
                at_midnight |-> at_midnight]
    /\ result' = Some(get_weak_areas(telegram_id, LookbackDays, at_midnight))
    /\ UNCHANGED statsFrame
    /\ UNCHANGED cycleVars

\* a call of _calculate_streak(user.id), as get_user_stats makes it
streak_call(telegram_id) ==
    /\ call = NoCall
    /\ UserByTelegramId(telegram_id) # None
    /\ call' = [fn |-> "_calculate_streak",
                user_id |-> TheValue(UserByTelegramId(telegram_id))]
    /\ result' = Some(calculate_streak(TheValue(UserByTelegramId(telegram_id))))
    /\ UNCHANGED statsFrame
    /\ UNCHANGED cycleVars

NextStats ==
    \/ \E tg \in TelegramIds, at_midnight \in BOOLEAN : weak_areas_call(tg, at_midnight)
    \/ \E tg \in TelegramIds : streak_call(tg)

SpecStats == InitStats /\ [][NextStats]_vars

----------------------------------------------------------------------------
(* Properties *)

Idle == \A h \in Handlers : pc[h] = "idle"

\* the responses of a learner answered on a UTC day
DayResponses(user_id, day) ==
    {i \in 1..Len(responses) :
        responses[i].user_id = user_id /\ responses[i].answered_at = day}

CorrectOfType(rs, q_type) ==
    {i \in rs : responses[i].is_correct
                /\ questions[responses[i].question_id].question_type = q_type}

WrongOfType(rs, q_type) ==
    {i \in rs : ~responses[i].is_correct
                /\ questions[responses[i].question_id].question_type = q_type}

\* exactly 2 correct grammar answers and 1 incorrect listening answer
Scenario(rs) ==
    /\ Cardinality(rs) = 3
    /\ Cardinality(CorrectOfType(rs, "grammar")) = 2
    /\ Cardinality(WrongOfType(rs, "listening")) = 1

\* exactly 2 correct answers and 1 incorrect answer
TwoOfThree(rs) ==
    /\ Cardinality(rs) = 3
    /\ Cardinality({i \in rs : responses[i].is_correct}) = 2

\* the rows of the learner and day of the recompute that completed last
LastRows == ProgressRows(LastKey.user_id, LastKey.today)

LastResponses == DayResponses(LastKey.user_id, LastKey.today)

\* s is the truncation of n / d
Truncates(s, n, d) == s * d <= n /\ n < (s + 1) * d

----------------------------------------------------------------------------
\* C1: when record_answer returns for learner L, L's DailyProgress row of
\* the current UTC day (the day the recompute read) has questions_attempted
\* equal to the number of L's responses of that day and questions_correct
\* equal to the number of the correct ones, whatever was answered before;
\* 2 correct grammar answers and 1 incorrect listening answer give 3, 2,
\* grammar_accuracy 100 and listening_accuracy 0.
C1_CountsAfterAnswer ==
    last # None =>
        /\ LastRows # {}
        /\ \A i \in LastRows :
            /\ progress[i].questions_attempted = Cardinality(LastResponses)
            /\ progress[i].questions_correct =
                    Cardinality({r \in LastResponses : responses[r].is_correct})
            /\ Scenario(LastResponses) =>
                /\ progress[i].questions_attempted = 3
                /\ progress[i].questions_correct = 2
                /\ progress[i].grammar_accuracy = Some([num |-> 100, den |-> 1])
                /\ progress[i].listening_accuracy = Some([num |-> 0, den |-> 1])

C1_Witness ==
    /\ last # None
    /\ Scenario(LastResponses)
    /\ \E i \in LastRows : progress[i].questions_attempted = 3
    /\ Len(users) = 2

\* C2 (as claimed): with exactly 2 correct and 1 incorrect response of the
\* day, the recompute writes estimated_score 567 and sets current_score to 567.
C2_Score567 ==
    (last # None /\ TwoOfThree(LastResponses)) =>
        /\ \A i \in LastRows : progress[i].estimated_toeic_score = Some(567)
        /\ users[LastKey.user_id].current_estimated_score = 567

\* C2 (amended): with exactly 2 correct and 1 incorrect response of the day,
\* the recompute writes estimated_score 566, the truncation of
\* 500 + (66.66.. - 60) * 10, and sets current_score to 566.
C2_Score566 ==
    (last # None /\ TwoOfThree(LastResponses)) =>
        /\ LastRows # {}
        /\ \A i \in LastRows : progress[i].estimated_toeic_score = Some(566)
        /\ users[LastKey.user_id].current_estimated_score = 566

C2_Witness ==
    /\ last # None
    /\ TwoOfThree(LastResponses)
    /\ \E i \in LastRows : progress[i].accuracy_percentage = [num |-> 200, den |-> 3]
    /\ users[LastKey.user_id].current_estimated_score = 566

\* C3: estimate_score maps 95 to 850, 85 to 750, 75 to 650, 65 to 550 and
\* 50 to 483, and every accuracy to the truncation of the formula of the
\* branch it falls in.
C3_PiecewiseTruncated ==
    score # None =>
        LET s == TheValue(score)
            n == accuracy.num
            d == accuracy.den
        IN  /\ n = 95 * d => s = 850
            /\ n = 85 * d => s = 750
            /\ n = 75 * d => s = 650
            /\ n = 65 * d => s = 550
            /\ n = 50 * d => s = 483
            /\ n >= 90 * d => Truncates(s, 800 * d + 10 * (n - 90 * d), d)
            /\ (80 * d <= n /\ n < 90 * d) =>
                    Truncates(s, 700 * d + 10 * (n - 80 * d), d)
            /\ (70 * d <= n /\ n < 80 * d) =>
                    Truncates(s, 600 * d + 10 * (n - 70 * d), d)
            /\ (60 * d <= n /\ n < 70 * d) =>
                    Truncates(s, 500 * d + 10 * (n - 60 * d), d)
            /\ n < 60 * d => Truncates(s, 40000 * d + 167 * n, 100 * d)

C3_Witness ==
    /\ accuracy = [num |-> 200, den |-> 4]
    /\ score = Some(483)

\* C4: estimate_score is continuous at 60, 70, 80 and 90: at each boundary
\* the truncated value of the branch below it and the value returned there
\* (the branch at or above it) differ by at most 1.
C4_ContinuousAtBoundaries ==
    score # None =>
        \A b \in {60, 70, 80, 90} :
            accuracy.num = b * accuracy.den =>
                LET below == CASE b = 60 -> "low"
                               [] b = 70 -> "60"
                               [] b = 80 -> "70"
                               [] OTHER  -> "80"
                    diff  == TheValue(score) - BranchScore(below, accuracy)
                IN  /\ BranchOf(accuracy) # below
                    /\ -1 <= diff
                    /\ diff <= 1

C4_Witness ==
    /\ accuracy = [num |-> 280, den |-> 4]
    /\ score = Some(600)
    /\ BranchScore("60", accuracy) = 600

\* C5: the recompute triggered by a response updates the row of the UTC day
\* that contains the response's answered_at, also when the date changes
\* between the write and the recompute: once record_answer has completed,
\* every response's day has a row of its learner, and each row counts all of
\* the learner's responses answered on its day.
C5_RowOfResponseDay ==
    Idle =>
        /\ \A r \in 1..Len(responses) :
                ProgressRows(responses[r].user_id, responses[r].answered_at) # {}
        /\ \A i \in 1..Len(progress) :
                progress[i].questions_attempted =
                    Cardinality(DayResponses(progress[i].user_id, progress[i].date))

\* C6: a row is created only by the first response of a learner on a day:
\* every row has questions_attempted >= 1 and a non-null estimated_score.
C6_RowsHaveResponses ==
    \A i \in 1..Len(progress) :
        /\ progress[i].questions_attempted >= 1
        /\ progress[i].estimated_toeic_score # None

\* C7: a recompute for a learner with zero responses on the recomputed day
\* leaves current_score unchanged.
C7_NoResponsesKeepsScore ==
    [][\A h \in Handlers :
        (/\ pc[h] = "read"
         /\ pc'[h] = "idle"
         /\ DayResponses(req[h].user_id, upd[h].today) = {})
        => (\A u \in 1..Len(users) :
                users'[u].current_estimated_score = users[u].current_estimated_score)
    ]_vars

C7_Witness ==
    /\ last # None
    /\ LastResponses = {}
    /\ LastRows # {}
    /\ users[LastKey.user_id].current_estimated_score # 600

\* C8: the recompute is idempotent: run again for the same learner and day
\* with no Response written in between, it leaves every DailyProgress row
\* and every current_score as the first run left them, and adds no row.
C8_Idempotent ==
    [][\A h \in Handlers :
        (/\ pc[h] = "read"
         /\ pc'[h] = "idle"
         /\ last # None
         /\ LastKey = [user_id |-> req[h].user_id, today |-> upd[h].today])
        => (progress' = progress /\ users' = users)
    ]_vars

C8_Witness ==
    /\ last # None
    /\ TheValue(last).runs = 2
    /\ \E i \in LastRows : progress[i].questions_attempted = 2
    /\ Idle

\* C9: there is at most one DailyProgress row per (learner, UTC day).
C9_OneRowPerDay ==
    \A i, j \in 1..Len(progress) :
        (progress[i].user_id = progress[j].user_id /\ progress[i].date = progress[j].date)
            => i = j

C9_Witness ==
    /\ Idle
    /\ Len(progress) = 1
    /\ progress[1].questions_attempted = 3
    /\ Len(responses) = 3

\* C10: no two record_answer executions of a learner on a day end with the
\* row's questions_attempted below the number of the learner's responses of
\* that day (no lost update).
C10_NoLostUpdate ==
    Idle =>
        \A i \in 1..Len(progress) :
            progress[i].questions_attempted
                >= Cardinality(DayResponses(progress[i].user_id, progress[i].date))

\* C11: an answer whose question_id resolves to no Question fails before any
\* write: the call persists no Response, changes no used_count (no Question
\* row at all), creates or changes no DailyProgress row, changes no existing
\* learner's current_score, and starts no recompute.
C11_MissingQuestionWritesNothing ==
    [][\A h \in Handlers, e \in AnswerEvents :
        (/\ get_question_by_id(e[2]) = None
         /\ handle_answer(h, e[1], e[2], e[3]))
        => (/\ responses' = responses
            /\ questions' = questions
            /\ progress' = progress
            /\ pc' = pc
            /\ \A u \in 1..Len(users) :
                    users'[u].current_estimated_score
                        = users[u].current_estimated_score)
    ]_vars

\* learner 2 exists and has no Response: their one answer named a Question
\* that did not exist, while learner 1 has answers, a row and a new score
C11_Witness ==
    /\ Idle
    /\ Len(users) = 2
    /\ Len(responses) = 2
    /\ \A r \in 1..Len(responses) : responses[r].user_id = 1
    /\ Len(progress) = 1
    /\ users[1].current_estimated_score # 600
    /\ users[2].current_estimated_score = 600

\* C12: an answer event whose letter is not one of A, B, C, D (in either
\* case) is rejected without persisting a Response: every persisted Response
\* has user_answer in {A, B, C, D}.
C12_LettersValidated ==
    \A r \in 1..Len(responses) : responses[r].user_answer \in {"A", "B", "C", "D"}

\* C13: a Response has is_correct true exactly when its upper-cased answer
\* letter equals the correct_answer of the Question it references, its
\* user_answer is stored upper-cased, and this holds in every later state
\* (the flag is never changed).
C13_FlagIsUpperEquality ==
    \A r \in 1..Len(responses) :
        /\ responses[r].is_correct
                <=> (responses[r].user_answer = QuestionOf(responses[r]).correct_answer)
        /\ Upper(responses[r].user_answer) = responses[r].user_answer

\* the Response rows that reference Question q
ResponsesTo(q) == {r \in 1..Len(responses) : responses[r].question_id = q}

\* C14: each Question's used_count equals the number of Response rows that
\* reference it: it starts at 0 and is incremented by exactly 1 per accepted
\* answer, by no other operation.
C14_UsedCountIsResponseCount ==
    \A q \in 1..Len(questions) :
        questions[q].used_count = Cardinality(ResponsesTo(q))

C14_Witness ==
    /\ Idle
    /\ Len(questions) = 2
    /\ questions[1].used_count = 2
    /\ questions[2].used_count = 1
    /\ Cardinality(ResponsesTo(1)) = 2

\* the other Response rows of the same learner to the same Question on the
\* same UTC day
Repeats(r) ==
    {x \in DayResponses(responses[r].user_id, responses[r].answered_at) :
        x # r /\ responses[x].question_id = responses[r].question_id}

\* C15: repeated answers of a learner to the same Question are all accepted:
\* each has its own Response row, and once record_answer has completed each
\* is counted in questions_attempted, and in questions_correct when correct,
\* of the learner's DailyProgress row of the day it was answered on.
C15_RepeatsCounted ==
    Idle =>
        \A r \in 1..Len(responses) :
            Repeats(r) # {} =>
                LET user_id == responses[r].user_id
                    day     == responses[r].answered_at
                IN  /\ ProgressRows(user_id, day) # {}
                    /\ \A i \in ProgressRows(user_id, day) :
                        /\ progress[i].questions_attempted
                                = Cardinality(DayResponses(user_id, day))
                        /\ progress[i].questions_correct
                                = Cardinality({x \in DayResponses(user_id, day) :
                                                    responses[x].is_correct})

\* the Response written by the record_answer in progress: answers are handled
\* one at a time, so it is the row written last
WrittenResponse == responses[Len(responses)]

----------------------------------------------------------------------------
(* Properties of the delivery cycle *)

\* the roster of the cycle, as telegram ids
RosterIds == {users[cycle.users[k]].telegram_id : k \in 1..Len(cycle.users)}

\* the deliver_to_all_users loop is past the learner
Done(tg) ==
    \E k \in 1..Len(cycle.users) :
        /\ users[cycle.users[k]].telegram_id = tg
        /\ k < cycle.n \/ cycle.pc = "idle"

\* an exception of send_daily_content was logged for the learner
SendFailed(tg) ==
    \E k \in 1..Len(log) : log[k] = [where |-> "send", chat_id |-> tg]

AttemptsOf(tg) == SelectSeq(attempts, LAMBDA a : a.user = tg)

OutboxOf(tg) == SelectSeq(outbox, LAMBDA m : m.chat_id = tg)

\* the attempts of a kind that produced a Question, in generation order
Generated(tg, kind) ==
    SelectSeq(attempts,
              LAMBDA a : a.user = tg /\ a.kind = kind /\ a.question_id # 0)

\* the messages of a kind sent to the learner, in sending order
SentOfKind(tg, kind) ==
    SelectSeq(outbox, LAMBDA m : m.chat_id = tg /\ m.kind = kind)

\* the messages carry the questions of the attempts, one each, in order
SameQuestions(msgs, atts) ==
    /\ Len(msgs) = Len(atts)
    /\ \A k \in 1..Len(msgs) : msgs[k].question_id = atts[k].question_id

Failures(kind) ==
    {k \in 1..Len(attempts) : attempts[k].kind = kind /\ attempts[k].question_id = 0}

Logged(where) == {k \in 1..Len(log) : log[k].where = where}

ItemsPerDay == listening_questions_per_day + grammar_questions_per_day

C18_WeekendSkipped ==
    [][\A wd \in {5, 6} :
        (~weekend_delivery /\ deliver_to_all_users(wd))
        => (/\ questions' = questions
            /\ outbox' = outbox
            /\ attempts' = attempts
            /\ log' = log
            /\ cycle' = cycle
            /\ cycle'.pc = "idle")
    ]_vars

\* the job has fired, there are active users, and no cycle was started
C18_Witness ==
    /\ ~weekend_delivery
    /\ ~job_due
    /\ get_all_active_users # <<>>
    /\ cycle = NoCycle
    /\ questions = <<>>
    /\ outbox = <<>>

\* the calls send_daily_content makes for the learner when none raises
ExpectedKinds(tg) ==
    LET nl == Len(Generated(tg, "listening"))
        ng == Len(Generated(tg, "grammar"))
    IN  <<"intro">>
        \o [k \in 1..(2 * nl) |-> IF k % 2 = 1 THEN "audio" ELSE "question"]
        \o <<"separator">>
        \o [k \in 1..ng |-> "grammar"]
        \o <<"closing">>

ExpectedQuestions(tg) ==
    LET ls == Generated(tg, "listening")
        gs == Generated(tg, "grammar")
    IN  <<0>>
        \o [k \in 1..(2 * Len(ls)) |-> ls[(k + 1) \div 2].question_id]
        \o <<0>>
        \o [k \in 1..Len(gs) |-> gs[k].question_id]
        \o <<0>>

C20_CycleSurvivesSendError ==
    (cycle.pc = "idle" /\ ~job_due) =>
        \A tg \in RosterIds :
            /\ Len(AttemptsOf(tg)) = ItemsPerDay
            /\ OutboxOf(tg) # <<>> \/ SendFailed(tg)

\* the delivery to learner 101 raised after the introduction, and learner
\* 102 got the whole delivery
C20_Witness ==
    /\ cycle.pc = "idle"
    /\ Len(cycle.users) = 2
    /\ SendFailed(101)
    /\ Len(OutboxOf(101)) = 1
    /\ ~SendFailed(102)
    /\ Len(SentOfKind(102, "closing")) = 1
    /\ Len(AttemptsOf(102)) = ItemsPerDay

\* the learner was attempted once: one generation attempt for each item of
\* the day, in the order of the loops
AttemptedOnce(tg) ==
    /\ Len(AttemptsOf(tg)) = ItemsPerDay
    /\ \A k \in 1..ItemsPerDay :
        /\ AttemptsOf(tg)[k].kind =
               IF k <= listening_questions_per_day THEN "listening" ELSE "grammar"
        /\ AttemptsOf(tg)[k].i =
               IF k <= listening_questions_per_day
               THEN k ELSE k - listening_questions_per_day

\* the cycle is over and has attempted exactly the learners of its roster,
\* each once
CycleComplete ==
    /\ cycle.pc = "idle"
    /\ \A tg \in RosterIds : AttemptedOnce(tg)
    /\ \A tg \in TelegramIds \ RosterIds : AttemptsOf(tg) = <<>>

\* C22: a started cycle, when every external call returns or raises,
\* eventually is back at idle having attempted every learner of the roster
\* it read exactly once, whatever generations or deliveries failed.
C22_CycleCompletes == (cycle.pc # "idle") ~> CycleComplete

\* a cycle over two learners ended although an item generation of the
\* first learner and the delivery to the second failed
C22_Witness ==
    /\ CycleComplete
    /\ Len(cycle.users) = 2
    /\ attempts[1].question_id = 0
    /\ SendFailed(users[cycle.users[2]].telegram_id)
    /\ ~SendFailed(users[cycle.users[1]].telegram_id)

\* the attempt produced a Question and the Question is in the table
Persisted(a) ==
    /\ a.question_id \in 1..Len(questions)
    /\ questions[a.question_id].question_type = a.kind

\* C23: each generated item is a persisted Question as soon as it is
\* generated: in every state of a cycle, so also when a later generation or
\* a later delivery step has failed and when the cycle has ended, every
\* item generated so far is a row of the questions table, each with a row
\* of its own, and the rows are numbered in generation order.
C23_GeneratedItemsPersisted ==
    /\ \A k \in 1..Len(attempts) :
        attempts[k].question_id # 0 => Persisted(attempts[k])
    /\ \A j, k \in 1..Len(attempts) :
        (j < k /\ attempts[j].question_id # 0 /\ attempts[k].question_id # 0)
            => attempts[j].question_id < attempts[k].question_id
    /\ Len(questions) =
           Cardinality({k \in 1..Len(attempts) : attempts[k].question_id # 0})

\* the first item of a learner was generated, the second failed, the
\* delivery failed too, and at the end of the cycle the first item is a row
C23_Witness ==
    /\ cycle.pc = "idle"
    /\ Len(attempts) >= 2
    /\ attempts[1].question_id = 1
    /\ attempts[2].question_id = 0
    /\ SendFailed(attempts[1].user)
    /\ Persisted(attempts[1])

\* the generator returned a payload that lacks one of the keys
Malformed(q_data, keys) == ~q_data.raised /\ ~(keys \subseteq q_data.keys)

\* the step saves nothing, adds nothing to the content to deliver, sends
\* nothing and logs one error
ItemSkipped ==
    /\ questions' = questions
    /\ cycle'.listening_questions = cycle.listening_questions
    /\ cycle'.grammar_questions = cycle.grammar_questions
    /\ outbox' = outbox
    /\ Len(log') = Len(log) + 1
    /\ attempts'[Len(attempts')].question_id = 0

\* C24: a payload of the generator that lacks a required field (the
\* question text, one of the four options, the correct answer, for
\* listening the script) is a generation failure: the step that receives it
\* persists no Question and adds no item to the content that is delivered.
C24_MalformedPayloadSkipped ==
    [][/\ \A q_data \in ListeningResults, saved \in BOOLEAN :
            (Malformed(q_data, ListeningKeys)
                /\ generate_listening_question(q_data, saved)) => ItemSkipped
       /\ \A q_data \in GrammarResults, saved \in BOOLEAN :
            (Malformed(q_data, GrammarKeys)
                /\ generate_grammar_question(q_data, saved)) => ItemSkipped]_vars

\* every item of the first learner has failed: nothing is persisted and
\* the delivery starts with no item
C24_Witness ==
    /\ cycle.pc = "intro"
    /\ cycle.n = 1
    /\ Len(log) = ItemsPerDay
    /\ questions = <<>>
    /\ cycle.listening_questions = <<>>
    /\ cycle.grammar_questions = <<>>

\* C25: every persisted Question has correct_answer in {A, B, C, D},
\* whatever payload the generator returned.
C25_AnswerLetterValid ==
    \A q \in 1..Len(questions) :
        questions[q].correct_answer \in {"A", "B", "C", "D"}

\* the generator returned a payload with every key
Complete(q_data, keys) == ~q_data.raised /\ keys \subseteq q_data.keys

\* the loop of deliver_to_all_users leaves the learner: no further item is
\* generated and nothing is sent, the next learner (or the end) follows
LearnerAbandoned ==
    /\ cycle' = NextUser(cycle)
    /\ outbox' = outbox
    /\ questions' = questions

\* C26: when save_question fails for an item of a learner, the remaining
\* steps of that learner (the further items and the delivery) are
\* abandoned and the cycle goes on with the next learner.
C26_PersistenceFailureAbandonsLearner ==
    [][/\ \A q_data \in ListeningResults :
            (Complete(q_data, ListeningKeys)
                /\ generate_listening_question(q_data, FALSE)) => LearnerAbandoned
       /\ \A q_data \in GrammarResults :
            (Complete(q_data, GrammarKeys)
                /\ generate_grammar_question(q_data, FALSE)) => LearnerAbandoned]_vars

----------------------------------------------------------------------------
(* Properties of the bot over several days *)

\* a step that takes the due job and starts the loop over a roster
StartsCycle == job_due /\ ~job_due' /\ cycle' # cycle

\* C21: at most one delivery cycle is in progress at any time: while a
\* cycle is running no step takes the due job, and the running cycle keeps
\* its roster and never goes back to an earlier learner, so a job that
\* comes due during a cycle starts no second cycle that overlaps it.
C21_OneCycleAtATime ==
    [][cycle.pc # "idle"
        => /\ ~StartsCycle
           /\ job_due => job_due'
           /\ cycle'.users = cycle.users
           /\ cycle'.n >= cycle.n]_vars

\* the job came due while the first cycle was running; the cycle is at
\* its last step and only its own items have been generated
C21_Witness ==
    /\ job_due
    /\ now = 1
    /\ cycle.pc = "closing"
    /\ Len(cycle.users) = 2
    /\ cycle.n = 2
    /\ Len(attempts) = 2 * ItemsPerDay

\* the rows of the roster the running (or last) cycle read
RosterRows == {cycle.users[k] : k \in 1..Len(cycle.users)}

\* the learner of the attempt or message the step appended
Target(before, after, field) ==
    IF Len(after) > Len(before) THEN {after[Len(after)][field]} ELSE {}

\* C28: a cycle generates Questions for and sends messages to exactly the
\* learners whose is_active was true when it read its roster: the roster a
\* cycle starts with is the set of the rows that are active at that step,
\* it is not changed before the next cycle starts, every attempt and every
\* message of the cycle is for a learner of it, whatever the learners'
\* is_active has become since, and a cycle that has ended has generated
\* for and sent to every learner of its roster.
C28_ExactlyActiveAtRead ==
    /\ [][/\ StartsCycle =>
               RosterRows' = {k \in 1..Len(users) : users[k].is_active}
          /\ ~StartsCycle => cycle'.users = cycle.users
          /\ \A tg \in Target(attempts, attempts', "user")
                        \cup Target(outbox, outbox', "chat_id") :
               \E k \in RosterRows : users[k].telegram_id = tg]_vars
    /\ [](cycle.pc = "idle" =>
            \A k \in RosterRows :
                /\ AttemptsOf(users[k].telegram_id) # <<>>
                /\ SentOfKind(users[k].telegram_id, "closing") # <<>>)

\* learner 101 was inactive when the cycle read its roster and subscribed
\* before the cycle ended, learner 102 unsubscribed after the read: the
\* cycle has generated for and sent to 102 only
C28_Witness ==
    /\ cycle.pc = "idle"
    /\ now = 0
    /\ ~job_due
    /\ cycle.users = <<2>>
    /\ users[1].is_active
    /\ ~users[2].is_active
    /\ OutboxOf(101) = <<>>
    /\ AttemptsOf(101) = <<>>
    /\ Len(OutboxOf(102)) > 0

----------------------------------------------------------------------------
(* Properties of the handler running beside a cycle *)

\* a step of the scheduler thread
CycleStep == cycle' # cycle \/ job_due' # job_due

\* a step of the answer handler
HandlerStep == pc' # pc \/ users' # users

\* the Questions a cycle running alone has persisted after these attempts:
\* one row per generated item, in generation order
QuestionsOfCycle ==
    [q \in 1..Len(questions) |->
        IF \E k \in 1..Len(attempts) :
                attempts[k].question_id = q /\ attempts[k].kind = "listening"
        THEN NewQuestion(QuestionPayloads[2])
        ELSE NewQuestion(QuestionPayloads[1])]

\* what record_answer running alone leaves for the answers given so far
AloneOutcome ==
    /\ \A r \in 1..Len(responses) :
        /\ responses[r].is_correct =
              (responses[r].user_answer
                 = Upper(QuestionsOfCycle[responses[r].question_id].correct_answer))
        /\ responses[r].user_id = TheValue(UserByTelegramId(101))
    /\ \A q \in 1..Len(questions) :
        questions[q].used_count = Cardinality(ResponsesTo(q))
    /\ last # None =>
        /\ Cardinality(LastRows) = 1
        /\ \A i \in LastRows :
            /\ progress[i] = RecomputedRow(NewProgress(LastKey.user_id, LastKey.today),
                                           LastResponses)
            /\ users[LastKey.user_id].current_estimated_score =
                   TheValue(progress[i].estimated_toeic_score)

\* what the cycle running alone has persisted
AloneQuestions ==
    /\ Len(questions) = Len(attempts)
    /\ \A q \in 1..Len(questions) :
        [questions[q] EXCEPT !.used_count = 0] = QuestionsOfCycle[q]

\* C27: a record_answer that runs beside a delivery cycle, in any
\* interleaving, leaves the Response, the used_count, the DailyProgress row
\* and the current score it leaves when it runs alone, and the cycle persists
\* the Questions it persists when it runs alone: no step of the one changes
\* what the other wrote.
C27_HandlerAndCycleIndependent ==
    /\ [](AloneOutcome /\ AloneQuestions)
    /\ [][/\ CycleStep =>
                (/\ UNCHANGED <<responses, progress, users, pc, req, upd, last>>
                 /\ SubSeq(questions', 1, Len(questions)) = questions)
          /\ HandlerStep =>
                (/\ UNCHANGED cycleVars
                 /\ Len(questions') = Len(questions))]_vars

\* the learner answered the first Question of the cycle while the cycle
\* was generating, the recompute ran while the cycle was sending, and a
\* second answer is being handled before the cycle ends
C27_Witness ==
    /\ cycle.pc = "closing"
    /\ Len(responses) = 2
    /\ responses[1].question_id = 1
    /\ responses[2].question_id = 2
    /\ responses[1].is_correct
    /\ questions[1].used_count = 1
    /\ Len(questions) >= 3
    /\ \E h \in Handlers : pc[h] = "read"
    /\ Len(progress) = 1

----------------------------------------------------------------------------
(* Properties of the statistics methods *)

\* the rows of the learner of the call whose date is in the lookback window
WindowRows ==
    {i \in 1..Len(progress) :
        /\ UserByTelegramId(call.telegram_id) = Some(progress[i].user_id)
        /\ \/ progress[i].date > now - LookbackDays
           \/ call.at_midnight /\ progress[i].date = now - LookbackDays}

\* the rows of the window whose accuracy of the kind is not NULL
NonNull(kind) ==
    {i \in WindowRows : AccuracyColumn(progress[i], kind) # None}

RECURSIVE SumOver(_, _)
\* the sum of the rows' accuracies of the kind
SumOver(ids, kind) ==
    IF ids = {} THEN ZeroPct
    ELSE LET i == CHOOSE j \in ids : TRUE
             a == TheValue(AccuracyColumn(progress[i], kind))
             t == SumOver(ids \ {i}, kind)
         IN  [num |-> a.num * t.den + t.num * a.den, den |-> a.den * t.den]

\* v times the number of the rows is the sum of their accuracies
IsMeanOf(v, ids, kind) ==
    v.num * SumOver(ids, kind).den * Cardinality(ids)
        = SumOver(ids, kind).num * v.den

\* C29: weak_areas never contains a kind that has no non-null per-day
\* accuracy in the lookback window, each value is the mean of the kind's
\* non-null per-day accuracies of the window, and the kinds are listed in
\* non-decreasing order of that mean.
C29_WeakAreasAreMeans ==
    call.fn = "get_weak_areas" =>
        LET weak_areas == TheValue(result)
        IN  /\ \A k \in 1..Len(weak_areas) :
                /\ NonNull(weak_areas[k].kind) # {}
                /\ IsMeanOf(weak_areas[k].value, NonNull(weak_areas[k].kind),
                            weak_areas[k].kind)
            /\ \A j, k \in 1..Len(weak_areas) :
                j < k => /\ weak_areas[j].kind # weak_areas[k].kind
                         /\ weak_areas[j].value.num * weak_areas[k].value.den
                              <= weak_areas[k].value.num * weak_areas[j].value.den

\* two days in the window: listening 0 and 0, grammar 50 and 100,
\* vocabulary 50 on one of them, reading never; the row of the day seven
\* days back is outside the window
C29_Witness ==
    /\ call.fn = "get_weak_areas"
    /\ ~call.at_midnight
    /\ \E i \in 1..Len(progress) :
        progress[i].user_id = 1 /\ progress[i].date = now - LookbackDays
    /\ result = Some(<< [kind |-> "listening",  value |-> [num |-> 0,  den |-> 1]],
                        [kind |-> "vocabulary", value |-> [num |-> 50, den |-> 1]],
                        [kind |-> "grammar",    value |-> [num |-> 75, den |-> 1]] >>)

\* the UTC days on which the learner of the call has a row with answers
AnsweredDays ==
    {progress[i].date : i \in {j \in 1..Len(progress) :
        /\ progress[j].user_id = call.user_id
        /\ progress[j].questions_attempted > 0}}

\* the UTC days on which the learner of the call has a row
RowDays ==
    {progress[i].date : i \in {j \in 1..Len(progress) :
        progress[j].user_id = call.user_id}}

\* each of the last n days, today included, is one of the days
RunOf(n, days) == \A d \in (now - n + 1)..now : d \in days

\* C30: activity_streak returns 0 when the learner has no DailyProgress row
\* for today (UTC); it returns N when each of the last N consecutive UTC
\* days including today has a row with questions_attempted > 0 and the day
\* before them has not; the result never exceeds 365, which is what a
\* longer run returns.
C30_StreakIsRunLength ==
    call.fn = "_calculate_streak" =>
        LET answered == AnsweredDays
        IN  /\ now \notin RowDays => result = Some(0)
            /\ \A n \in 0..StreakLimit :
                ((now - n) \notin answered /\ RunOf(n, answered))
                    => result = Some(n)
            /\ RunOf(StreakLimit, answered) => result = Some(StreakLimit)
            /\ TheValue(result) <= StreakLimit

\* the learner has answered on each of the last 366 days: the streak is 365
C30_Witness ==
    /\ call.fn = "_calculate_streak"
    /\ RunOf(StreakLimit + 1, AnsweredDays)
    /\ result = Some(StreakLimit)

----------------------------------------------------------------------------
(* Properties of the per-kind accuracies *)

\* the responses of the row's learner to Questions of the kind, answered on
\* the row's UTC day
KindResponses(row, kind) ==
    {r \in DayResponses(row.user_id, row.date) :
        questions[responses[r].question_id].question_type = kind}

\* C31: in every DailyProgress row, once record_answer has completed, the
\* accuracy of each content kind (listening, grammar, vocabulary, reading)
\* is non-null exactly when the learner has at least one response to a
\* Question of that kind on the row's day, and then equals 100 times the
\* correct ones over all of them.
C31_KindAccuracyOfDay ==
    Idle =>
        \A i \in 1..Len(progress) :
            \A kind \in {"listening", "grammar", "vocabulary", "reading"} :
                LET rs == KindResponses(progress[i], kind)
                IN  /\ (AccuracyColumn(progress[i], kind) # None) <=> (rs # {})
                    /\ rs # {} =>
                        AccuracyColumn(progress[i], kind) =
                            Some(Pct(Cardinality({r \in rs : responses[r].is_correct}),
                                     Cardinality(rs)))

----------------------------------------------------------------------------
(* Further properties of the delivery cycle *)

\* every item of the day was attempted for the learner and none was generated
AllItemsFailed(tg) ==
    /\ Len(AttemptsOf(tg)) = ItemsPerDay
    /\ \A k \in 1..ItemsPerDay : AttemptsOf(tg)[k].question_id = 0

\* the messages of a delivery without items
EmptyDelivery(tg) ==
    << [chat_id |-> tg, kind |-> "intro",     question_id |-> 0],
       [chat_id |-> tg, kind |-> "separator", question_id |-> 0],
       [chat_id |-> tg, kind |-> "closing",   question_id |-> 0] >>

RowsOf(table, user_id, day) ==
    {i \in 1..Len(table) : table[i].user_id = user_id /\ table[i].date = day}

\* the Response of the update a handler is working on: updates are handled
\* one at a time, so it is the one written last
OwnResponse == responses[Len(responses)]

----------------------------------------------------------------------------
(* Properties of a delivery that fails *)

\* the exceptions of send_daily_content logged for the learner
SendFailuresOf(tg) ==
    {k \in 1..Len(log) : log[k] = [where |-> "send", chat_id |-> tg]}

\* the step is the except clause of send_daily_content
SendFails == Cardinality(Logged("send"))' = Cardinality(Logged("send")) + 1

\* C34: when a send fails in the middle of a learner's delivery, the
\* messages already sent stay sent, no further message of the cycle is sent
\* to that learner (no remaining item, separator or closing message), the
\* learner is not tried again in the cycle (nothing more is generated for
\* them and one failure is logged), and the Questions generated for the
\* learner stay persisted.
C34_FailedDeliveryIsLeft ==
    /\ [](\A tg \in TelegramIds :
            SendFailed(tg) =>
                /\ Done(tg)
                /\ Cardinality(SendFailuresOf(tg)) = 1
                /\ SentOfKind(tg, "closing") = <<>>
                /\ Len(AttemptsOf(tg)) = ItemsPerDay
                /\ \A k \in 1..Len(attempts) :
                      (attempts[k].user = tg /\ attempts[k].question_id # 0)
                          => Persisted(attempts[k]))
    /\ [][/\ SubSeq(outbox', 1, Len(outbox)) = outbox
          /\ SubSeq(questions', 1, Len(questions)) = questions
          /\ SendFails => (outbox' = outbox /\ questions' = questions
                              /\ cycle' = NextUser(cycle))
          /\ \A tg \in TelegramIds :
                SendFailed(tg) => /\ OutboxOf(tg)' = OutboxOf(tg)
                                  /\ AttemptsOf(tg)' = AttemptsOf(tg)]_vars

\* the delivery to learner 101 raised after the introduction and the audio
\* of a first item; the cycle went on, learner 102 got a whole delivery, and
\* at the end learner 101 has the two messages and the item is a row
C34_Witness ==
    /\ cycle.pc = "idle"
    /\ Len(cycle.users) = 2
    /\ SendFailed(101)
    /\ Len(OutboxOf(101)) = 2
    /\ OutboxOf(101)[2].kind = "audio"
    /\ OutboxOf(101)[2].question_id \in 1..Len(questions)
    /\ ~SendFailed(102)
    /\ Len(SentOfKind(102, "closing")) = 1

----------------------------------------------------------------------------
(* Properties of the answer affordances *)

\* the messages sent with the keyboard of create_answer_keyboard
KeyboardKinds == {"question", "grammar"}

\* a message with a keyboard for the question is in the outbox
Delivered(question_id) ==
    \E k \in 1..Len(outbox) :
        outbox[k].kind \in KeyboardKinds /\ outbox[k].question_id = question_id

\* the step sends a message with a keyboard
SendsKeyboard ==
    /\ Len(outbox') = Len(outbox) + 1
    /\ outbox'[Len(outbox')].kind \in KeyboardKinds

\* C35: every question id carried by an answer keyboard sent in a cycle is
\* the id of a Question that was persisted before the message was sent, and
\* Questions are never deleted, so an answer to a delivered question is
\* never answered with "not found", in any interleaving of the handler with
\* the cycle: the handler finds the Question and writes the Response.
C35_DeliveredQuestionFound ==
    /\ [](\A k \in 1..Len(outbox) :
            outbox[k].kind \in KeyboardKinds
                => get_question_by_id(outbox[k].question_id) # None)
    /\ [][/\ Len(questions') >= Len(questions)
          /\ SendsKeyboard =>
                get_question_by_id(outbox'[Len(outbox')].question_id) # None
          /\ \A h \in Handlers, e \in RosterAnswerEvents :
                (Delivered(e[2]) /\ handle_answer(h, e[1], e[2], e[3]))
                    => (/\ Len(responses') = Len(responses) + 1
                        /\ responses'[Len(responses')].question_id = e[2]
                        /\ pc'[h] = "saved")]_vars

\* the learner has answered the second Question of the cycle, delivered
\* with its keyboard, while the cycle is still sending
C35_Witness ==
    /\ cycle.pc \in SendingPcs
    /\ Delivered(2)
    /\ Len(responses) >= 1
    /\ responses[Len(responses)].question_id = 2
    /\ responses[Len(responses)].user_id = cycle.users[cycle.n]

----------------------------------------------------------------------------
(* Properties of the current score *)

\* the rows of the learner that a recompute has filled from at least one
\* response (a row a recompute only created keeps questions_attempted 0)
FilledRows(user_id) ==
    {i \in 1..Len(progress) :
        progress[i].user_id = user_id /\ progress[i].questions_attempted > 0}

\* of those, the rows of the latest day: the clock does not go back, so the
\* recompute that filled a row last filled a row of the latest day
LatestFilledRows(user_id) ==
    {i \in FilledRows(user_id) :
        \A j \in FilledRows(user_id) : progress[j].date <= progress[i].date}

\* C36: in every reachable state the current score of a learner is the
\* default 600, when no recompute of the learner has had a response, or the
\* estimated score of the row the learner's most recent recompute with a
\* response has filled.
C36_ScoreIsOfLastRecompute ==
    /\ \A u \in 1..Len(users) :
          IF FilledRows(u) = {}
          THEN users[u].current_estimated_score = 600
          ELSE \A i \in LatestFilledRows(u) :
                  progress[i].estimated_toeic_score =
                      Some(users[u].current_estimated_score)
    /\ last # None =>
          \A i \in ProgressRows(LastKey.user_id, LastKey.today) :
              progress[i].questions_attempted > 0 =>
                  progress[i].estimated_toeic_score =
                      Some(users[LastKey.user_id].current_estimated_score)

\* the learner's first answer was recomputed on its day and changed the
\* score; the recompute of a later answer has read the clock after
\* midnight and only created the row of the next day: the score is still
\* that of the row of the first day
C36_Witness ==
    /\ Idle
    /\ last # None
    /\ LastKey.today = 1
    /\ \E i \in ProgressRows(LastKey.user_id, 1) : progress[i].questions_attempted = 0
    /\ \E i \in ProgressRows(LastKey.user_id, 0) :
          /\ progress[i].questions_attempted > 0
          /\ progress[i].estimated_toeic_score =
                 Some(users[LastKey.user_id].current_estimated_score)
    /\ users[LastKey.user_id].current_estimated_score # 600

----------------------------------------------------------------------------
(* Properties of the range of the score *)

\* the accuracies 0.00, 0.01, ..., 100.00
GridSteps == 10000
Grid(k) == [num |-> k, den |-> 100]

\* the accuracies a day of up to MaxAnswersOfDay answers can have
MaxAnswersOfDay == 12
AnswerAccuracies ==
    UNION { {Pct(c, n) : c \in 0..n} : n \in 1..MaxAnswersOfDay }

\* _estimate_toeic_score does not decrease from one accuracy to the next
\* higher one, over the hundredths of [0, 100] and over the accuracies of a
\* day
EstimateNonDecreasing ==
    /\ \A k \in 0..(GridSteps - 1) :
          estimate_toeic_score(Grid(k)) <= estimate_toeic_score(Grid(k + 1))
    /\ \A a, b \in AnswerAccuracies :
          LePct(a, b)
              => estimate_toeic_score(a) <= estimate_toeic_score(b)

\* and its values lie in [400, 900]
EstimateInRange ==
    /\ \A k \in 0..GridSteps : estimate_toeic_score(Grid(k)) \in 400..900
    /\ \A a \in AnswerAccuracies : estimate_toeic_score(a) \in 400..900

\* C37: every estimated score a recompute writes lies in [400, 900] and
\* _estimate_toeic_score is non-decreasing in the accuracy over [0, 100],
\* so the current score of a learner is within [400, 900] after any sequence
\* of answers.
C37_ScoreWithinRange ==
    /\ EstimateNonDecreasing
    /\ EstimateInRange
    /\ \A i \in 1..Len(progress) :
          /\ progress[i].estimated_toeic_score # None
                => TheValue(progress[i].estimated_toeic_score) \in 400..900
          /\ progress[i].questions_attempted > 0
                => progress[i].estimated_toeic_score =
                       Some(estimate_toeic_score(progress[i].accuracy_percentage))
    /\ \A u \in 1..Len(users) : users[u].current_estimated_score \in 400..900

\* a learner whose answers of one day were all wrong (a row with 400) has
\* answered right on the next day and has the score 900
C37_Witness ==
    \E i \in 1..Len(progress) :
        /\ progress[i].estimated_toeic_score = Some(400)
        /\ users[progress[i].user_id].current_estimated_score = 900

----------------------------------------------------------------------------
(* Properties of the subscription *)

\* the is_active of a registered learner
IsActive(tg) == users[TheValue(UserByTelegramId(tg))].is_active

Registered(tg) == UserByTelegramId(tg) # None

\* the rows of the other users are as they were
OthersUnchanged(tg) ==
    /\ Len(users') = Len(users)
    /\ \A k \in 1..Len(users) : users[k].telegram_id # tg => users'[k] = users[k]

\* the step handles a /start, /stats, /settings or /practice of the learner
\* or an answer of theirs
OtherEvent(tg) ==
    \/ start_command(tg)
    \/ stats_command(tg)
    \/ settings_command(tg)
    \/ \E grammar, reading \in BOOLEAN : practice_command(tg, grammar, reading)
    \/ \E h \in Handlers, e \in PrefsAnswerEvents :
            e[1] = tg /\ handle_answer(h, e[1], e[2], e[3])

\* C38: for an existing learner only the subscribe handler sets is_active
\* to true and only the unsubscribe handler sets it to false: a step that
\* changes it is the learner's /subscribe or /unsubscribe and changes no
\* other row, and is no start, stats, settings, practice or answer event; a
\* roster read while the learner is unsubscribed does not hold the learner;
\* and a second /subscribe or /unsubscribe in a row writes what is there.
C38_OnlySubscribeChangesIsActive ==
    /\ [](\A tg \in TelegramIds :
            Registered(tg) =>
                update_user_preferences(tg, IsActive(tg)) = users)
    /\ [][/\ users' # users =>
                \A tg \in TelegramIds :
                    (Registered(tg) /\ IsActive(tg)' # IsActive(tg)) =>
                        /\ IsActive(tg)' => subscribe_command(tg)
                        /\ ~IsActive(tg)' => unsubscribe_command(tg)
                        /\ OthersUnchanged(tg)
                        /\ ~OtherEvent(tg)
          /\ StartsCycle =>
                \A tg \in TelegramIds :
                    (Registered(tg) /\ ~IsActive(tg)) => tg \notin RosterIds']_vars

\* learner 101 unsubscribed, then practised and answered; the cycle has
\* read its roster, which holds learner 102 only
C38_Witness ==
    /\ ~IsActive(101)
    /\ IsActive(102)
    /\ cycle.pc = "listening"
    /\ RosterIds = {102}
    /\ \E r \in 1..Len(responses) : users[responses[r].user_id].telegram_id = 101
    /\ \E q \in 1..Len(questions) : questions[q].question_type = "reading"

====
